---- MODULE Spec2Model ----
(***************************************************************************)
(* Hyperliquid free data layer: the four detectors (order flow, whales,    *)
(* HLP sentiment, funding), their REST / WebSocket clients and the signal  *)
(* aggregator, as state machines translated from src/free_layer/*.py.      *)
(*                                                                         *)
(* One behaviour drives one object (variable target): the detector objects *)
(* share no state (each constructs its own REST client, lock, stop event   *)
(* and thread), so the reachable states of the process are the product of  *)
(* the reachable states of its objects.                                    *)
(*                                                                         *)
(* Floats are fixed-point integers; time is whole seconds read from clock. *)
(***************************************************************************)
EXTENDS Integers, Sequences, FiniteSets, TLC

----------------------------------------------------------------------------
(* Bounds of the model *)

MaxThreads == 2     \* threads one object may create in a behaviour
MaxPolls == 2       \* well-formed REST responses that carry data, per behaviour
MaxCycles == 2      \* poll intervals the clock may advance by

----------------------------------------------------------------------------
(* config.py *)

TRACKED_COINS == <<"ETH", "SOL">>
DEFAULT_WHALES == <<>>
POLL_INTERVAL_POSITIONS == 60
POLL_INTERVAL_FUNDING == 300
POLL_INTERVAL_HLP == 300
HISTORY_WINDOW == 604800     \* 7 * 24 * 3600
MIN_SAMPLES == 5
ORDERFLOW_WINDOWS == <<300, 900, 3600, 14400>>
MIN_WINDOW == 300
MAX_WINDOW == 14400          \* max(ORDERFLOW_WINDOWS)
MAX_WHALES == 50
MAX_RECENT_CHANGES == 200
SIGNAL_RECENT_CHANGES == 20

----------------------------------------------------------------------------
(* Generic helpers: Python lists are sequences, Python dicts are            *)
(* association lists in insertion order.                                    *)

None == "None"

Range(s) == {s[i] : i \in 1..Len(s)}

Last(s) == s[Len(s)]

First_n(s, n) == IF Len(s) <= n THEN s ELSE SubSeq(s, 1, n)

\* s[-n:]
Tail_n(s, n) == IF Len(s) <= n THEN s ELSE SubSeq(s, Len(s) - n + 1, Len(s))

Keys(d) == {d[i].k : i \in 1..Len(d)}

DictGet(d, k, dflt) ==
    IF k \in Keys(d)
    THEN d[CHOOSE i \in 1..Len(d) : d[i].k = k].v
    ELSE dflt

DictSet(d, k, v) ==
    IF k \in Keys(d)
    THEN [i \in 1..Len(d) |-> IF d[i].k = k THEN [k |-> k, v |-> v] ELSE d[i]]
    ELSE Append(d, [k |-> k, v |-> v])

RECURSIVE Filter(_, _)
Filter(s, keep) ==
    IF s = <<>> THEN <<>>
    ELSE IF Head(s) \in keep THEN <<Head(s)>> \o Filter(Tail(s), keep)
    ELSE Filter(Tail(s), keep)

CoinSet == Range(TRACKED_COINS)
Pollers == {"whales", "hlp", "funding"}
Targets == Pollers \cup {"orderflow"}
Addresses == {"A", "B"}

\* an address that is a JSON array: a value Python cannot use as a dict key
ListAddr == "[A]"
Hashable(addr) == addr # ListAddr

----------------------------------------------------------------------------
VARIABLES
    target,         \* the object the caller drives in this behaviour
    clock,          \* time.time()
    polls,          \* data-carrying REST responses delivered so far
    callerPc,       \* where the caller thread is inside a public method
    callErr,        \* the exception the caller's last call ended with
    lastOp,         \* per object: the last public call that finished
    stopFlag,       \* per poller: self._stop (threading.Event)
    workers,        \* per poller: the poll threads created, in creation order
    lock,           \* per detector: holder of self._lock (0 = free)
    boot,           \* WhaleTracker: the bootstrap threads created
    whales,         \* WhaleTracker.whales
    lastPositions,  \* WhaleTracker._last_positions
    recentChanges,  \* WhaleTracker._recent_changes
    hlpHistory,     \* HLPSentiment._history
    hlpLatest,      \* HLPSentiment._latest
    fundHistory,    \* FundingAnomalyDetector._history
    fundLatest,     \* FundingAnomalyDetector._latest
    fundLastOi,     \* FundingAnomalyDetector._last_oi
    wsStop,         \* HyperliquidWSClient._stop
    wsThreads,      \* HyperliquidWSClient: the threads created, each with its loop and task
    wsLoop,         \* HyperliquidWSClient._loop: the thread whose loop it is (0 = None)
    wsSock,         \* HyperliquidWSClient._ws: the connection it is (0 = None)
    wsSubs,         \* HyperliquidWSClient._subscriptions
    wsSent,         \* the subscribe messages written to a socket: <<connection, coin>>
    conns,          \* connections established so far
    trades,         \* OrderFlowImbalance._trades
    msClock,        \* time.time() in milliseconds, as the rate limiters read it
    lastTs,         \* per REST client: RateLimiter._last_ts
    limLock,        \* per REST client: holder of RateLimiter._lock ("" = free)
    rq,             \* per worker: where it is inside HyperliquidRESTClient._post
    passed,         \* the requests that left RateLimiter.wait: <<worker, time>>
    supply,         \* the data-carrying responses the upstream delivers in this behaviour
    created,        \* every WhaleChange created so far, in creation order
    compScore,      \* get_composite_signals: weighted, the score of the composite being built
    compRec         \* get_composite_signals: recommendation, the band chosen for it

vars == <<target, clock, polls, callerPc, callErr, lastOp,
          stopFlag, workers, lock, boot, whales, lastPositions, recentChanges,
          hlpHistory, hlpLatest, fundHistory, fundLatest, fundLastOi,
          wsStop, wsThreads, wsLoop, wsSock, wsSubs, wsSent, conns, trades,
          msClock, lastTs, limLock, rq, passed, supply, created, compScore, compRec>>

lifeVars == <<stopFlag, workers, boot>>
whaleData == <<whales, lastPositions, recentChanges, created>>
hlpData == <<hlpHistory, hlpLatest>>
fundData == <<fundHistory, fundLatest, fundLastOi>>
wsVars == <<wsStop, wsThreads, wsLoop, wsSock, wsSubs, wsSent, conns>>
restVars == <<msClock, lastTs, limLock, rq, passed>>
aggVars == <<compScore, compRec>>

\* the holder id of the calling thread, past the worker indices 1..MaxThreads
CALLER == MaxThreads + 1

StillHeld(d) == lock

\* the with self._lock: block is left, by its end or by an exception
Released(d) == [lock EXCEPT ![d] = 0]
Idle == [pc |-> "idle", det |-> None, op |-> None]

----------------------------------------------------------------------------
(* Threads.  A poller's threads are kept in creation order; self._thread is *)
(* the last one created.                                                    *)

\* a poll thread: where it is, and the locals of the cycle it is in; last_oi
\* is self._last_oi as the cycle found it
NewWorker(d) ==
    CASE d = "whales" -> [pc |-> "head", now |-> 0, addrs |-> <<>>, idx |-> 0, pos |-> <<>>]
      [] d = "hlp" -> [pc |-> "head", now |-> 0, state |-> None, exposures |-> <<>>]
      [] d = "funding" -> [pc |-> "head", now |-> 0, names |-> <<>>, ctxs |-> <<>>, idx |-> 0,
                           last_oi |-> <<>>]
DeadWorker(d) == [NewWorker(d) EXCEPT !.pc = "dead"]
At(d, pc) == [NewWorker(d) EXCEPT !.pc = pc]
NewBoot == [pc |-> "reset", k |-> 0, cand |-> <<>>, lb |-> <<>>, idx |-> 0]
DeadBoot == [NewBoot EXCEPT !.pc = "dead"]

Alive(ws) == {i \in 1..Len(ws) : ws[i].pc # "dead"}

\* self._thread and self._thread.is_alive()
ThreadAlive(d) == Len(workers[d]) > 0 /\ Last(workers[d]).pc # "dead"

SetWorker(d, i, w) == workers' = [workers EXCEPT ![d][i] = w]

Returned(d, op) ==
    /\ callerPc' = Idle
    /\ callErr' = None
    /\ lastOp' = [lastOp EXCEPT ![d] = op]

\* the call ends with an exception
Raised(d, op, err) ==
    /\ callerPc' = Idle
    /\ callErr' = err
    /\ lastOp' = [lastOp EXCEPT ![d] = op]

\* the clock stops at ClockCap
ClockCap ==
    IF target = "whales" THEN MaxCycles * POLL_INTERVAL_POSITIONS
    ELSE IF target = "orderflow" THEN MAX_WINDOW + MaxCycles * MIN_WINDOW
    ELSE HISTORY_WINDOW + MaxCycles * POLL_INTERVAL_HLP

\* the clock takes MaxCycles steps of one poll interval, from 0 and from one
\* whole window later
Horizon == IF target = "orderflow" THEN MAX_WINDOW ELSE HISTORY_WINDOW
Interval ==
    IF target = "whales" THEN POLL_INTERVAL_POSITIONS
    ELSE IF target = "orderflow" THEN MIN_WINDOW
    ELSE POLL_INTERVAL_HLP
CanAdvance(n) ==
    /\ clock + n <= ClockCap
    /\ (clock + n) % Horizon <= MaxCycles * Interval

\* time.sleep(n) in a worker lasts n seconds or longer
Slept(n) == clock' = IF CanAdvance(n) THEN clock + n ELSE clock

----------------------------------------------------------------------------
(* start() / stop() of the three polling detectors *)

StartNoGuard(d) == FALSE

\* if self._thread and self._thread.is_alive(): return
StartReturnsEarly(d) == ThreadAlive(d)

PollerStart(d) ==
    /\ target = d
    /\ callerPc = Idle
    /\ IF StartReturnsEarly(d)
       THEN UNCHANGED <<stopFlag, workers, boot>>
       ELSE /\ Len(workers[d]) < MaxThreads
            /\ stopFlag' = [stopFlag EXCEPT ![d] = FALSE]
            /\ boot' = IF d = "whales" THEN Append(boot, NewBoot) ELSE boot
            /\ workers' = [workers EXCEPT ![d] = Append(@, NewWorker(d))]
    /\ Returned(d, "start")
    /\ UNCHANGED <<target, supply, aggVars, clock, polls, lock, whaleData, hlpData, fundData, wsVars, trades, restVars>>

\* self._stop.set(); if self._thread: self._thread.join(timeout=5)
PollerStop(d) ==
    /\ target = d
    /\ callerPc = Idle
    /\ stopFlag' = [stopFlag EXCEPT ![d] = TRUE]
    /\ IF Len(workers[d]) > 0
       THEN /\ callerPc' = [pc |-> "join", det |-> d, op |-> "stop"]
            /\ UNCHANGED <<callErr, lastOp>>
       ELSE Returned(d, "stop")
    /\ UNCHANGED <<target, supply, aggVars, clock, polls, workers, boot, lock, whaleData, hlpData, fundData, wsVars, trades, restVars>>

\* join(timeout=5) returns when the thread has ended or the timeout expired
PollerJoinReturn(d) ==
    /\ target = d
    /\ callerPc.pc = "join" /\ callerPc.det = d
    /\ Returned(d, "stop")
    /\ UNCHANGED <<target, supply, aggVars, clock, polls, lifeVars, lock, whaleData, hlpData, fundData, wsVars, trades, restVars>>

WhaleStart == PollerStart("whales")
WhaleStop == PollerStop("whales") \/ PollerJoinReturn("whales")

----------------------------------------------------------------------------
(* WhaleTracker: REST responses *)

Num(n) == [t |-> "num", v |-> n]
BadNum == [t |-> "bad", v |-> 0]      \* a value float() rejects
Absent == [t |-> "absent", v |-> 0]   \* the field is missing
Entry(c, s) == [t |-> "dict", coin |-> c, szi |-> s]
NotAnEntry == [t |-> "other", coin |-> None, szi |-> Absent]

RFail == [kind |-> "fail", entries |-> <<>>]        \* _post raised
RNotDict == [kind |-> "notdict", entries |-> <<>>]  \* a JSON value that is no object
ROk(es) == [kind |-> "ok", entries |-> es]          \* {"assetPositions": es}

WhaleBodies ==
    { <<>>,
      <<Entry("ETH", Num(1))>>,
      <<Entry("ETH", Num(2)), Entry("SOL", Num(-1))>>,
      <<Entry("SOL", Num(0))>>,
      <<Entry(None, BadNum), Entry("BTC", Absent)>>,
      <<Entry("ETH", Num(1)), Entry("ETH", Num(-1))>>,
      <<Entry("ETH", BadNum)>>,
      <<NotAnEntry>> }

WhaleResponses == {RFail, RNotDict} \cup {ROk(es) : es \in WhaleBodies}

\* whales.py 124-131: the fresh {coin: size} mapping, or the exception
RECURSIVE ParseFrom(_, _, _)
ParseFrom(entries, i, acc) ==
    IF i > Len(entries) THEN [raised |-> FALSE, positions |-> acc]
    ELSE LET pos == entries[i] IN
         IF pos.t # "dict" THEN [raised |-> TRUE, positions |-> <<>>]
         ELSE IF pos.coin = None THEN ParseFrom(entries, i + 1, acc)
         ELSE IF pos.szi.t = "bad" THEN [raised |-> TRUE, positions |-> <<>>]
         ELSE ParseFrom(entries, i + 1, DictSet(acc, pos.coin, pos.szi.v))

ParsePositions(r) ==
    IF r.kind = "notdict" THEN [raised |-> TRUE, positions |-> <<>>]
    ELSE ParseFrom(r.entries, 1, <<>>)

----------------------------------------------------------------------------
(* WhaleTracker._poll_loop / _poll_positions *)

EmptyMap == [a \in {} |-> <<>>]

\* self._last_positions.get(addr, {})
Baseline(addr) == IF addr \in DOMAIN lastPositions THEN lastPositions[addr] ELSE <<>>

WhaleChange(addr, coin, prev, new, now) ==
    [address |-> addr, coin |-> coin, prev_size |-> prev, new_size |-> new,
     timestamp |-> now]

RECURSIVE ChangedEvents(_, _, _, _)
ChangedEvents(addr, prev, positions, now) ==
    IF positions = <<>> THEN <<>>
    ELSE LET p == Head(positions)
             prev_size == DictGet(prev, p.k, 0)
             rest == ChangedEvents(addr, prev, Tail(positions), now)
         IN IF p.v # prev_size
            THEN <<WhaleChange(addr, p.k, prev_size, p.v, now)>> \o rest
            ELSE rest

NoGoneEvents(addr, prev, positions, now) == <<>>

RECURSIVE GoneEvents(_, _, _, _)
GoneEvents(addr, prev, positions, now) ==
    IF prev = <<>> THEN <<>>
    ELSE LET p == Head(prev)
             rest == GoneEvents(addr, Tail(prev), positions, now)
         IN IF p.k \notin Keys(positions) /\ p.v # 0
            THEN <<WhaleChange(addr, p.k, p.v, 0, now)>> \o rest
            ELSE rest

DiffEvents(addr, prev, positions, now) ==
    ChangedEvents(addr, prev, positions, now) \o GoneEvents(addr, prev, positions, now)

Untruncated(changes) == changes

\* self._recent_changes = self._recent_changes[-200:]
Truncated(changes) == Tail_n(changes, MAX_RECENT_CHANGES)

AbandonCycle(w) == At("whales", "sleep")

\* the for loop of _poll_positions moves to the next address, or the cycle ends
NextAddr(w) ==
    IF w.idx < Len(w.addrs)
    THEN [w EXCEPT !.pc = "fetch", !.idx = w.idx + 1, !.pos = <<>>]
    ELSE At("whales", "sleep")

\* while not self._stop.is_set()
WhaleHead(i) ==
    /\ target = "whales"
    /\ i \in 1..Len(workers["whales"])
    /\ workers["whales"][i].pc = "head"
    /\ SetWorker("whales", i,
                 IF stopFlag["whales"] THEN DeadWorker("whales")
                 ELSE At("whales", "begin"))
    /\ UNCHANGED <<target, supply, aggVars, clock, polls, callerPc, callErr, lastOp,
                   stopFlag, lock, boot, whaleData, hlpData, fundData, wsVars, trades, restVars>>

\* now = time.time(); for addr in list(self.whales)
WhaleBegin(i) ==
    /\ target = "whales"
    /\ i \in 1..Len(workers["whales"])
    /\ workers["whales"][i].pc = "begin"
    /\ SetWorker("whales", i,
                 IF whales = <<>> THEN At("whales", "sleep")
                 ELSE [NewWorker("whales") EXCEPT !.pc = "fetch", !.now = clock,
                                        !.addrs = whales, !.idx = 1])
    /\ UNCHANGED <<target, supply, aggVars, clock, polls, callerPc, callErr, lastOp,
                   stopFlag, lock, boot, whaleData, hlpData, fundData, wsVars, trades, restVars>>

\* state = self.rest.clearinghouse_state(addr) returns or raises, then
\* lines 124-131 build positions
WhaleFetchReturn(i, r) ==
    /\ target = "whales"
    /\ i \in 1..Len(workers["whales"])
    /\ workers["whales"][i].pc = "fetch"
    /\ r.kind = "ok" => polls < supply
    /\ polls' = IF r.kind = "ok" THEN polls + 1 ELSE polls
    /\ LET w == workers["whales"][i]
           parsed == ParsePositions(r)
       IN SetWorker("whales", i,
                    IF r.kind = "fail" THEN NextAddr(w)
                    ELSE IF parsed.raised THEN DeadWorker("whales")
                    ELSE [w EXCEPT !.pc = "acquire", !.pos = parsed.positions])
    /\ UNCHANGED <<target, supply, aggVars, clock, callerPc, callErr, lastOp,
                   stopFlag, lock, boot, whaleData, hlpData, fundData, wsVars, trades, restVars>>

\* with self._lock:
WhaleAcquire(i) ==
    /\ target = "whales"
    /\ i \in 1..Len(workers["whales"])
    /\ workers["whales"][i].pc = "acquire"
    /\ lock["whales"] = 0
    /\ lock' = [lock EXCEPT !["whales"] = i]
    /\ SetWorker("whales", i, [workers["whales"][i] EXCEPT !.pc = "crit"])
    /\ UNCHANGED <<target, supply, aggVars, clock, polls, callerPc, callErr, lastOp,
                   stopFlag, boot, whaleData, hlpData, fundData, wsVars, trades, restVars>>

\* whales.py 133-158, and the lock is released
WhaleDiff(i) ==
    /\ target = "whales"
    /\ i \in 1..Len(workers["whales"])
    /\ workers["whales"][i].pc = "crit"
    /\ LET w == workers["whales"][i]
           addr == w.addrs[w.idx]
           prev == Baseline(addr)
       IN IF Hashable(addr)
          THEN /\ recentChanges' =
                      Truncated(recentChanges \o DiffEvents(addr, prev, w.pos, w.now))
               /\ created' = created \o DiffEvents(addr, prev, w.pos, w.now)
               /\ lastPositions' =
                      [a \in DOMAIN lastPositions \cup {addr} |->
                          IF a = addr THEN w.pos ELSE lastPositions[a]]
               /\ SetWorker("whales", i, NextAddr(w))
          ELSE \* self._last_positions.get(addr, {}) raises TypeError
               /\ SetWorker("whales", i, DeadWorker("whales"))
               /\ UNCHANGED <<recentChanges, lastPositions, created>>
    /\ lock' = Released("whales")
    /\ UNCHANGED <<target, supply, aggVars, clock, polls, callerPc, callErr, lastOp,
                   stopFlag, boot, whales, hlpData, fundData, wsVars, trades, restVars>>

\* time.sleep(POLL_INTERVAL_POSITIONS)
WhaleSleep(i) ==
    /\ target = "whales"
    /\ i \in 1..Len(workers["whales"])
    /\ workers["whales"][i].pc = "sleep"
    /\ SetWorker("whales", i, NewWorker("whales"))
    /\ Slept(POLL_INTERVAL_POSITIONS)
    /\ UNCHANGED <<target, supply, aggVars, polls, callerPc, callErr, lastOp,
                   stopFlag, lock, boot, whaleData, hlpData, fundData, wsVars, trades, restVars>>

----------------------------------------------------------------------------
(* WhaleTracker._bootstrap_whales / _fetch_leaderboard *)

LEADERBOARD_TYPES == <<"leaderboard", "traderLeaderboard", "topTraders">>

StrItem(a) == [t |-> "str", addr |-> a]
DictItem(a) == [t |-> "dict", addr |-> a]   \* item.get("address") or item.get("user")
OtherItem == [t |-> "other", addr |-> None]

LbFail == [kind |-> "fail", key |-> None, items |-> <<>>]
LbList(items) == [kind |-> "list", key |-> None, items |-> items]
LbDict(key, items) == [kind |-> "dict", key |-> key, items |-> items]
LbOther == [kind |-> "other", key |-> None, items |-> <<>>]

LbResponses ==
    { LbFail, LbOther, LbList(<<>>),
      LbList(<<StrItem("A"), StrItem("B")>>),
      LbDict("leaders", <<DictItem("B"), DictItem(None), OtherItem, StrItem("B")>>),
      LbDict("data", <<DictItem(ListAddr)>>),
      LbDict("rows", <<StrItem("A")>>) }

\* whales.py 91-99
Candidates(resp, candidates) ==
    IF resp.kind = "list" THEN resp.items
    ELSE IF resp.kind = "dict"
         THEN (IF resp.key \in {"leaders", "entries", "data"} THEN resp.items ELSE <<>>)
    ELSE candidates

\* whales.py 102-110
RECURSIVE LeaderAddresses(_)
LeaderAddresses(candidates) ==
    IF candidates = <<>> THEN <<>>
    ELSE LET item == Head(candidates)
             rest == LeaderAddresses(Tail(candidates))
         IN IF item.t = "str" THEN <<item.addr>> \o rest
            ELSE IF item.t = "dict" /\ item.addr # None THEN <<item.addr>> \o rest
            ELSE rest

SetBoot(j, b) == boot' = [boot EXCEPT ![j] = b]

\* self.whales = list(DEFAULT_WHALES)
BootReset(j) ==
    /\ target = "whales"
    /\ j \in 1..Len(boot)
    /\ boot[j].pc = "reset"
    /\ whales' = DEFAULT_WHALES
    /\ SetBoot(j, [NewBoot EXCEPT !.pc = "probe", !.k = 1])
    /\ UNCHANGED <<target, supply, aggVars, clock, polls, callerPc, callErr, lastOp,
                   stopFlag, workers, lock, lastPositions, recentChanges, created, hlpData, fundData, wsVars, trades, restVars>>

\* one pass of the for loop of _fetch_leaderboard; after the loop, lines 102-110
BootProbe(j, resp) ==
    /\ target = "whales"
    /\ j \in 1..Len(boot)
    /\ boot[j].pc = "probe"
    /\ LET b == boot[j]
           cand == IF resp.kind = "fail" THEN b.cand ELSE Candidates(resp, b.cand)
           done == (resp.kind # "fail" /\ cand # <<>>) \/ b.k = Len(LEADERBOARD_TYPES)
           lb == LeaderAddresses(cand)
       IN SetBoot(j, IF ~done THEN [b EXCEPT !.k = b.k + 1, !.cand = cand]
                     ELSE IF lb = <<>> THEN DeadBoot
                     ELSE [NewBoot EXCEPT !.pc = "append", !.lb = lb, !.idx = 1])
    /\ UNCHANGED <<target, supply, aggVars, clock, polls, callerPc, callErr, lastOp,
                   stopFlag, workers, lock, whaleData, hlpData, fundData, wsVars, trades, restVars>>

\* one pass of the for loop of _bootstrap_whales
BootAppend(j) ==
    /\ target = "whales"
    /\ j \in 1..Len(boot)
    /\ boot[j].pc = "append"
    /\ LET b == boot[j]
           addr == b.lb[b.idx]
           new == IF addr \notin Range(whales) THEN Append(whales, addr) ELSE whales
       IN /\ whales' = new
          /\ SetBoot(j, IF Len(new) >= MAX_WHALES \/ b.idx = Len(b.lb) THEN DeadBoot
                        ELSE [b EXCEPT !.idx = b.idx + 1])
    /\ UNCHANGED <<target, supply, aggVars, clock, polls, callerPc, callErr, lastOp,
                   stopFlag, workers, lock, lastPositions, recentChanges, created, hlpData, fundData, wsVars, trades, restVars>>

----------------------------------------------------------------------------
(* WhaleTracker.get_signals / add_whale, called by the caller thread *)

FP == 1000   \* fixed point: a float x is the integer x * FP, truncated

PositionOf(addr, coin) == DictGet(Baseline(addr), coin, 0)

WhaleSignalOf(coin, now) ==
    LET long_count == Cardinality({j \in 1..Len(whales) : PositionOf(whales[j], coin) > 0})
        short_count == Cardinality({j \in 1..Len(whales) : PositionOf(whales[j], coin) < 0})
        total == long_count + short_count
    IN [coin |-> coin,
        whale_long_pct |-> IF total # 0 THEN (long_count * 100 * FP) \div total ELSE 0,
        whale_short_pct |-> IF total # 0 THEN (short_count * 100 * FP) \div total ELSE 0,
        recent_changes |-> Tail_n(recentChanges, SIGNAL_RECENT_CHANGES),
        timestamp |-> now]

(* long_pct and short_pct bit for bit.  A positive binary64 value is the    *)
(* record [e, m]: m is its significand, MANT binary digits with the most    *)
(* significant first (always 1), and e the exponent of that first digit.   *)

MANT == 53

F64Zero == [e |-> 0, m |-> <<>>]

Front(s) == SubSeq(s, 1, Len(s) - 1)
Zeros(n) == [j \in 1..n |-> 0]

\* the binary digits of a natural number, none for 0
RECURSIVE BitsOf(_)
BitsOf(n) == IF n = 0 THEN <<>> ELSE BitsOf(n \div 2) \o <<n % 2>>

\* digits + 1 in the last place, for digits that are not all 1
Succ(digits) ==
    LET k == CHOOSE k \in 1..Len(digits) :
                 digits[k] = 0 /\ \A j \in (k + 1)..Len(digits) : digits[j] = 1
    IN [j \in 1..Len(digits) |-> IF j < k THEN digits[j] ELSE IF j = k THEN 1 ELSE 0]

\* round to nearest, ties to even: digits start with 1, the first digit has
\* exponent e, and sticky tells of a nonzero rest below the last digit
F64Round(digits, e, sticky) ==
    IF Len(digits) <= MANT
    THEN [e |-> e, m |-> digits \o Zeros(MANT - Len(digits))]
    ELSE LET keep == SubSeq(digits, 1, MANT)
             rest == sticky \/ \E k \in (MANT + 2)..Len(digits) : digits[k] = 1
             up == digits[MANT + 1] = 1 /\ (rest \/ keep[MANT] = 1)
         IN IF ~up THEN [e |-> e, m |-> keep]
            ELSE IF \A k \in 1..MANT : keep[k] = 1
                 THEN [e |-> e + 1, m |-> <<1>> \o Zeros(MANT - 1)]
            ELSE [e |-> e, m |-> Succ(keep)]

F64FromInt(n) == IF n = 0 THEN F64Zero ELSE F64Round(BitsOf(n), Len(BitsOf(n)) - 1, FALSE)

\* the first n binary digits of r / t after the point, for r < t
RECURSIVE FracBits(_, _, _)
FracBits(r, t, n) ==
    IF n = 0 THEN <<>>
    ELSE IF 2 * r >= t THEN <<1>> \o FracBits(2 * r - t, t, n - 1)
    ELSE <<0>> \o FracBits(2 * r, t, n - 1)

\* what is left of r / t below these n digits
RECURSIVE FracRem(_, _, _)
FracRem(r, t, n) == IF n = 0 THEN r ELSE FracRem((2 * r) % t, t, n - 1)

\* the place of the first 1 among the digits of r / t, for 0 < r < t
RECURSIVE LeadPos(_, _)
LeadPos(r, t) == IF 2 * r >= t THEN 1 ELSE 1 + LeadPos(2 * r, t)

\* count / total of two ints, 0 <= count <= total, total > 0
F64Div(count, total) ==
    IF count = 0 THEN F64Zero
    ELSE IF count = total THEN F64FromInt(1)
    ELSE LET k == LeadPos(count, total)
             n == k + MANT
         IN F64Round(SubSeq(FracBits(count, total, n), k, n), -k,
                     FracRem(count, total, n) # 0)

\* digits times a small natural number, exactly
RECURSIVE MulCarry(_, _, _)
MulCarry(digits, by, carry) ==
    IF digits = <<>> THEN BitsOf(carry)
    ELSE LET v == digits[Len(digits)] * by + carry
         IN IF v < 2 THEN MulCarry(Front(digits), by, 0) \o <<v>>
            ELSE MulCarry(Front(digits), by, v \div 2) \o <<v % 2>>

\* x * by
F64Mul(x, by) ==
    IF x = F64Zero THEN F64Zero
    ELSE LET product == MulCarry(x.m, by, 0)
         IN F64Round(product, x.e + Len(product) - MANT, FALSE)

\* the sum of two digit sequences of one length, exactly
RECURSIVE AddCarry(_, _, _)
AddCarry(a, b, carry) ==
    IF a = <<>> THEN BitsOf(carry)
    ELSE LET v == a[Len(a)] + b[Len(b)] + carry
         IN IF v < 2 THEN AddCarry(Front(a), Front(b), 0) \o <<v>>
            ELSE AddCarry(Front(a), Front(b), v \div 2) \o <<v % 2>>

\* x + y
F64Add(x, y) ==
    IF x = F64Zero THEN y
    ELSE IF y = F64Zero THEN x
    ELSE LET hi == IF x.e >= y.e THEN x ELSE y
             lo == IF x.e >= y.e THEN y ELSE x
             d == hi.e - lo.e
             total == AddCarry(hi.m \o Zeros(d), Zeros(d) \o lo.m, 0)
         IN F64Round(total, hi.e + Len(total) - (MANT + d), FALSE)

\* x <= y
F64Leq(x, y) ==
    IF x = F64Zero THEN TRUE
    ELSE IF y = F64Zero THEN FALSE
    ELSE IF x.e # y.e THEN x.e < y.e
    ELSE \A j \in 1..MANT : (\A i \in 1..(j - 1) : x.m[i] = y.m[i]) => x.m[j] <= y.m[j]

\* (count / total) * 100 if total else 0.0
Pct(count, total) == IF total # 0 THEN F64Mul(F64Div(count, total), 100) ELSE F64Zero

\* long_pct and short_pct of one instrument, as get_signals() computes them
WhalePct(coin) ==
    LET long_count == Cardinality({j \in 1..Len(whales) : PositionOf(whales[j], coin) > 0})
        short_count == Cardinality({j \in 1..Len(whales) : PositionOf(whales[j], coin) < 0})
        total == long_count + short_count
    IN [long_pct |-> Pct(long_count, total), short_pct |-> Pct(short_count, total)]

WhaleGetSignalsValue(now) ==
    [i \in 1..Len(TRACKED_COINS) |-> WhaleSignalOf(TRACKED_COINS[i], now)]

\* now = time.time(); with self._lock:
WhaleGetSignalsEnter ==
    /\ target = "whales"
    /\ callerPc = Idle
    /\ lock["whales"] = 0
    /\ lock' = [lock EXCEPT !["whales"] = CALLER]
    /\ callerPc' = [pc |-> "gs_crit", det |-> "whales", op |-> clock]
    /\ UNCHANGED <<target, supply, aggVars, clock, polls, callErr, lastOp, lifeVars, whaleData, hlpData, fundData, wsVars, trades, restVars>>

\* self._last_positions.get(addr, {}) raises TypeError for an unhashable addr
WhaleGetSignalsRaises == \E j \in 1..Len(whales) : ~Hashable(whales[j])

\* whales.py 163-186
WhaleGetSignalsReturn ==
    /\ target = "whales"
    /\ callerPc.pc = "gs_crit" /\ callerPc.det = "whales"
    /\ lock' = Released("whales")
    /\ IF WhaleGetSignalsRaises
       THEN Raised("whales", "get_signals", "TypeError")
       ELSE Returned("whales", "get_signals")
    /\ UNCHANGED <<target, supply, aggVars, clock, polls, lifeVars, whaleData, hlpData, fundData, wsVars, trades, restVars>>

WhaleGetSignals == WhaleGetSignalsEnter \/ WhaleGetSignalsReturn

\* with self._lock: if address not in self.whales: self.whales.append(address)
AddWhaleEnter(addr) ==
    /\ target = "whales"
    /\ callerPc = Idle
    /\ lock["whales"] = 0
    /\ lock' = [lock EXCEPT !["whales"] = CALLER]
    /\ callerPc' = [pc |-> "aw_crit", det |-> "whales", op |-> addr]
    /\ UNCHANGED <<target, supply, aggVars, clock, polls, callErr, lastOp, lifeVars, whaleData, hlpData, fundData, wsVars, trades, restVars>>

AddWhaleReturn ==
    /\ target = "whales"
    /\ callerPc.pc = "aw_crit"
    /\ whales' = IF callerPc.op \notin Range(whales)
                 THEN Append(whales, callerPc.op) ELSE whales
    /\ lock' = Released("whales")
    /\ Returned("whales", "add_whale")
    /\ UNCHANGED <<target, supply, aggVars, clock, polls, lifeVars, lastPositions, recentChanges, created, hlpData, fundData, wsVars, trades, restVars>>

add_whale == (\E addr \in Addresses : AddWhaleEnter(addr)) \/ AddWhaleReturn

----------------------------------------------------------------------------
(* The whale tracker as a whole *)

WhalePollWorker(Resp) ==
    \E i \in 1..MaxThreads :
        \/ WhaleHead(i)
        \/ WhaleBegin(i)
        \/ \E r \in Resp : WhaleFetchReturn(i, r)
        \/ WhaleAcquire(i)
        \/ WhaleDiff(i)
        \/ WhaleSleep(i)

WhaleBootWorker(Resp) ==
    \E j \in 1..MaxThreads :
        \/ BootReset(j)
        \/ \E resp \in Resp : BootProbe(j, resp)
        \/ BootAppend(j)

----------------------------------------------------------------------------
(* Rolling history and z-score, shared by hlp_sentiment.py and funding.py   *)

Sample(t, v) == [t |-> t, v |-> v]

RECURSIVE Sum(_)
Sum(s) == IF s = <<>> THEN 0 ELSE Head(s) + Sum(Tail(s))

RECURSIVE SumSq(_)
SumSq(s) == IF s = <<>> THEN 0 ELSE Head(s) * Head(s) + SumSq(Tail(s))

Abs(x) == IF x < 0 THEN -x ELSE x

\* a / b for b > 0, rounded toward zero
Quot(a, b) == IF a >= 0 THEN a \div b ELSE -((-a) \div b)

KeepAll(hist, cutoff) == hist

\* [(t, v) for t, v in hist if t >= cutoff]
RECURSIVE KeepFrom(_, _)
KeepFrom(hist, cutoff) ==
    IF hist = <<>> THEN <<>>
    ELSE IF Head(hist).t >= cutoff THEN <<Head(hist)>> \o KeepFrom(Tail(hist), cutoff)
    ELSE KeepFrom(Tail(hist), cutoff)

Prepended(hist, now, x) == KeepFrom(<<Sample(now, x)>> \o hist, now - HISTORY_WINDOW)

\* hist.append((now, x)); cutoff = now - 7 * 24 * 3600;
\* [(t, v) for t, v in hist if t >= cutoff]
Appended(hist, now, x) == KeepFrom(Append(hist, Sample(now, x)), now - HISTORY_WINDOW)

Values(hist) == [i \in 1..Len(hist) |-> hist[i].v]

\* n^2 * variance of the values: np.std(values) > 0 iff this is > 0
Spread(values) == Len(values) * SumSq(values) - Sum(values) * Sum(values)

ZScoreNoMin(values, x) ==
    IF Spread(values) > 0
    THEN LET num == (Len(values) * x - Sum(values)) * FP
             spread == Spread(values)
             square == num * num
             mag == CHOOSE z \in 0..(FP * Len(values)) :
                        /\ z * z * spread <= square
                        /\ (z + 1) * (z + 1) * spread > square
         IN IF num < 0 THEN -mag ELSE mag
    ELSE 0

\* (x - mean) / std in fixed point, 0.0 unless len(values) >= 5 and std > 0
ZScore(values, x) ==
    IF Len(values) >= MIN_SAMPLES /\ Spread(values) > 0
    THEN LET num == (Len(values) * x - Sum(values)) * FP
             spread == Spread(values)
             square == num * num
             mag == CHOOSE z \in 0..(FP * Len(values)) :
                        /\ z * z * spread <= square
                        /\ (z + 1) * (z + 1) * spread > square
         IN IF num < 0 THEN -mag ELSE mag
    ELSE 0

----------------------------------------------------------------------------
(* HLPSentiment *)

HlpStart == PollerStart("hlp")
HlpStop == PollerStop("hlp") \/ PollerJoinReturn("hlp")

\* all_mids(): a flat {coin: price} object, one wrapped under "mids", another
\* JSON value, or an exception
MFail == [kind |-> "fail", mids |-> <<>>]
MFlat(m) == [kind |-> "flat", mids |-> m]
MWrapped(m) == [kind |-> "wrapped", mids |-> m]
MOther == [kind |-> "other", mids |-> <<>>]
Price(c, p) == [k |-> c, v |-> p]

\* hlp_sentiment.py 64-67
MidsOf(mids_resp) == IF mids_resp.kind \in {"flat", "wrapped"} THEN mids_resp.mids ELSE <<>>

\* hlp_sentiment.py 70-80: the exposures, or the exception
RECURSIVE ExposuresFrom(_, _, _, _)
ExposuresFrom(entries, i, mids, acc) ==
    IF i > Len(entries) THEN [raised |-> FALSE, exposures |-> acc]
    ELSE LET pos == entries[i] IN
         IF pos.t # "dict" THEN [raised |-> TRUE, exposures |-> acc]
         ELSE IF pos.coin \notin CoinSet THEN ExposuresFrom(entries, i + 1, mids, acc)
         ELSE LET mid == DictGet(mids, pos.coin, Num(0)) IN
              IF pos.szi.t = "bad" \/ mid.t = "bad" THEN [raised |-> TRUE, exposures |-> acc]
              ELSE ExposuresFrom(entries, i + 1, mids,
                                 [acc EXCEPT ![pos.coin] = pos.szi.v * mid.v])

Exposures(hlp_state, mids_resp) ==
    IF hlp_state.kind = "notdict" THEN [raised |-> TRUE, exposures |-> <<>>]
    ELSE ExposuresFrom(hlp_state.entries, 1, MidsOf(mids_resp), [c \in CoinSet |-> 0])

HLPSignal(coin, exposure, z, now) ==
    [coin |-> coin, hlp_exposure |-> exposure, z_score |-> z,
     direction |-> IF exposure > 0 THEN "LONG" ELSE IF exposure < 0 THEN "SHORT" ELSE "FLAT",
     is_extreme |-> Abs(z) >= 2 * FP, timestamp |-> now]

HlpHistoryAfter(exposures, now) ==
    [c \in CoinSet |-> Appended(hlpHistory[c], now, exposures[c])]

\* the for loop of hlp_sentiment.py 84-106 over the first n coins
RECURSIVE HlpLatestAfter(_, _, _, _)
HlpLatestAfter(latest, exposures, now, n) ==
    IF n = 0 THEN latest
    ELSE LET coin == TRACKED_COINS[n]
             hist == HlpHistoryAfter(exposures, now)[coin]
             z == ZScore(Values(hist), exposures[coin])
         IN DictSet(HlpLatestAfter(latest, exposures, now, n - 1), coin,
                    HLPSignal(coin, exposures[coin], z, now))

AbandonedDead(d) == DeadWorker(d)

\* except Exception: return -- the cycle is abandoned, _poll_loop sleeps
Abandoned(d) == At(d, "sleep")

HlpHead(i) ==
    /\ target = "hlp"
    /\ i \in 1..Len(workers["hlp"])
    /\ workers["hlp"][i].pc = "head"
    /\ SetWorker("hlp", i, IF stopFlag["hlp"] THEN DeadWorker("hlp") ELSE At("hlp", "begin"))
    /\ UNCHANGED <<target, supply, aggVars, clock, polls, callerPc, callErr, lastOp,
                   stopFlag, lock, boot, whaleData, hlpData, fundData, wsVars, trades, restVars>>

\* now = time.time()
HlpBegin(i) ==
    /\ target = "hlp"
    /\ i \in 1..Len(workers["hlp"])
    /\ workers["hlp"][i].pc = "begin"
    /\ SetWorker("hlp", i, [At("hlp", "fetch_vault") EXCEPT !.now = clock])
    /\ UNCHANGED <<target, supply, aggVars, clock, polls, callerPc, callErr, lastOp,
                   stopFlag, lock, boot, whaleData, hlpData, fundData, wsVars, trades, restVars>>

\* vault = self.rest.vault_details(HLP_VAULT) returns or raises
HlpFetchVault(i, ok) ==
    /\ target = "hlp"
    /\ i \in 1..Len(workers["hlp"])
    /\ workers["hlp"][i].pc = "fetch_vault"
    /\ SetWorker("hlp", i, IF ok THEN [workers["hlp"][i] EXCEPT !.pc = "fetch_state"]
                           ELSE Abandoned("hlp"))
    /\ UNCHANGED <<target, supply, aggVars, clock, polls, callerPc, callErr, lastOp,
                   stopFlag, lock, boot, whaleData, hlpData, fundData, wsVars, trades, restVars>>

\* hlp_state = self.rest.clearinghouse_state(HLP_VAULT) returns or raises
HlpFetchState(i, r) ==
    /\ target = "hlp"
    /\ i \in 1..Len(workers["hlp"])
    /\ workers["hlp"][i].pc = "fetch_state"
    /\ r.kind = "ok" => polls < supply
    /\ polls' = IF r.kind = "ok" THEN polls + 1 ELSE polls
    /\ SetWorker("hlp", i, IF r.kind = "fail" THEN Abandoned("hlp")
                           ELSE [workers["hlp"][i] EXCEPT !.pc = "fetch_mids", !.state = r])
    /\ UNCHANGED <<target, supply, aggVars, clock, callerPc, callErr, lastOp,
                   stopFlag, lock, boot, whaleData, hlpData, fundData, wsVars, trades, restVars>>

\* mids_resp = self.rest.all_mids() returns or raises, then lines 64-80
HlpFetchMids(i, m) ==
    /\ target = "hlp"
    /\ i \in 1..Len(workers["hlp"])
    /\ workers["hlp"][i].pc = "fetch_mids"
    /\ LET w == workers["hlp"][i]
           e == Exposures(w.state, m)
       IN SetWorker("hlp", i,
                    IF m.kind = "fail" THEN Abandoned("hlp")
                    ELSE IF e.raised THEN DeadWorker("hlp")
                    ELSE [w EXCEPT !.pc = "acquire", !.state = None,
                                   !.exposures = e.exposures])
    /\ UNCHANGED <<target, supply, aggVars, clock, polls, callerPc, callErr, lastOp,
                   stopFlag, lock, boot, whaleData, hlpData, fundData, wsVars, trades, restVars>>

\* with self._lock:
HlpAcquire(i) ==
    /\ target = "hlp"
    /\ i \in 1..Len(workers["hlp"])
    /\ workers["hlp"][i].pc = "acquire"
    /\ lock["hlp"] = 0
    /\ lock' = [lock EXCEPT !["hlp"] = i]
    /\ SetWorker("hlp", i, [workers["hlp"][i] EXCEPT !.pc = "crit"])
    /\ UNCHANGED <<target, supply, aggVars, clock, polls, callerPc, callErr, lastOp,
                   stopFlag, boot, whaleData, hlpData, fundData, wsVars, trades, restVars>>

\* hlp_sentiment.py 84-106, and the lock is released
HlpUpdate(i) ==
    /\ target = "hlp"
    /\ i \in 1..Len(workers["hlp"])
    /\ workers["hlp"][i].pc = "crit"
    /\ LET w == workers["hlp"][i] IN
          /\ hlpHistory' = HlpHistoryAfter(w.exposures, w.now)
          /\ hlpLatest' = HlpLatestAfter(hlpLatest, w.exposures, w.now, Len(TRACKED_COINS))
    /\ lock' = Released("hlp")
    /\ SetWorker("hlp", i, At("hlp", "sleep"))
    /\ UNCHANGED <<target, supply, aggVars, clock, polls, callerPc, callErr, lastOp,
                   stopFlag, boot, whaleData, fundData, wsVars, trades, restVars>>

\* time.sleep(POLL_INTERVAL_HLP)
HlpSleep(i, n) ==
    /\ target = "hlp"
    /\ i \in 1..Len(workers["hlp"])
    /\ workers["hlp"][i].pc = "sleep"
    /\ SetWorker("hlp", i, NewWorker("hlp"))
    /\ Slept(n)
    /\ UNCHANGED <<target, supply, aggVars, polls, callerPc, callErr, lastOp,
                   stopFlag, lock, boot, whaleData, hlpData, fundData, wsVars, trades, restVars>>

\* with self._lock: return list(self._latest.values())
DictValues(d) == [i \in 1..Len(d) |-> d[i].v]

HlpGetSignalsEnter ==
    /\ target = "hlp"
    /\ callerPc = Idle
    /\ lock["hlp"] = 0
    /\ lock' = [lock EXCEPT !["hlp"] = CALLER]
    /\ callerPc' = [pc |-> "gs_crit", det |-> "hlp", op |-> clock]
    /\ UNCHANGED <<target, supply, aggVars, clock, polls, callErr, lastOp, lifeVars,
                   whaleData, hlpData, fundData, wsVars, trades, restVars>>

HlpGetSignalsReturn ==
    /\ target = "hlp"
    /\ callerPc.pc = "gs_crit" /\ callerPc.det = "hlp"
    /\ lock' = Released("hlp")
    /\ Returned("hlp", "get_signals")
    /\ UNCHANGED <<target, supply, aggVars, clock, polls, lifeVars, whaleData, hlpData, fundData, wsVars, trades, restVars>>

HlpGetSignals == HlpGetSignalsEnter \/ HlpGetSignalsReturn

HlpSleeps == {POLL_INTERVAL_HLP, HISTORY_WINDOW}

HlpPollWorker(StateResp, MidsResp, Sleeps) ==
    \E i \in 1..MaxThreads :
        \/ HlpHead(i)
        \/ HlpBegin(i)
        \/ \E ok \in BOOLEAN : HlpFetchVault(i, ok)
        \/ \E r \in StateResp : HlpFetchState(i, r)
        \/ \E m \in MidsResp : HlpFetchMids(i, m)
        \/ HlpAcquire(i)
        \/ HlpUpdate(i)
        \/ \E n \in Sleeps : HlpSleep(i, n)

----------------------------------------------------------------------------
(* FundingAnomalyDetector *)

FundingStart == PollerStart("funding")
FundingStop == PollerStop("funding") \/ PollerJoinReturn("funding")

\* meta_and_asset_ctxs(): [meta, [ctx, ...]] with the names of meta["universe"],
\* a value of another shape, or an exception
Ctx(f, oi) == [t |-> "dict", funding |-> f, oi |-> oi]
NotACtx == [t |-> "other", funding |-> Absent, oi |-> Absent]

FFail == [kind |-> "fail", names |-> <<>>, ctxs |-> <<>>]
FNotList == [kind |-> "notlist", names |-> <<>>, ctxs |-> <<>>]   \* not a list of >= 2
FBadMeta == [kind |-> "badmeta", names |-> <<>>, ctxs |-> <<>>]   \* resp[0] is no object
FOk(names, ctxs) == [kind |-> "ok", names |-> names, ctxs |-> ctxs]

\* float(x) under try/except: 0.0 when x is missing or not a number
Coerce(x) == IF x.t = "num" THEN x.v ELSE 0

\* funding.py 73-76: the next index at or after i whose name is tracked
RECURSIVE NextTracked(_, _, _)
NextTracked(names, ctxs, i) ==
    IF i > Len(ctxs) THEN 0
    ELSE IF i <= Len(names) /\ names[i] \in CoinSet THEN i
    ELSE NextTracked(names, ctxs, i + 1)

\* the for loop of _poll_once goes on from index i
FundingGoOn(w, i) ==
    LET j == NextTracked(w.names, w.ctxs, i) IN
    IF j = 0 THEN At("funding", "sleep")
    ELSE IF w.ctxs[j].t # "dict" THEN DeadWorker("funding")
    ELSE [w EXCEPT !.pc = "acquire", !.idx = j]

FundingSignal(coin, rate, z, oi, oi_change_pct, now) ==
    [coin |-> coin, funding_rate |-> rate, funding_zscore |-> z, oi |-> oi,
     oi_change_pct |-> oi_change_pct,
     is_anomaly |-> Abs(z) >= 2 * FP \/ Abs(oi_change_pct) >= 20 * FP,
     timestamp |-> now]

\* funding.py 96-99
OiChangePct(coin, oi) ==
    LET prev_oi == IF coin \in DOMAIN fundLastOi THEN fundLastOi[coin] ELSE 0 IN
    IF prev_oi # 0
    THEN IF prev_oi > 0 THEN Quot((oi - prev_oi) * 100 * FP, prev_oi)
         ELSE Quot((prev_oi - oi) * 100 * FP, -prev_oi)
    ELSE 0

FundingHeadNoCheck(i) ==
    /\ target = "funding"
    /\ i \in 1..Len(workers["funding"])
    /\ workers["funding"][i].pc = "head"
    /\ SetWorker("funding", i, At("funding", "begin"))
    /\ UNCHANGED <<target, supply, aggVars, clock, polls, callerPc, callErr, lastOp,
                   stopFlag, lock, boot, whaleData, hlpData, fundData, wsVars, trades, restVars>>

FundingHead(i) ==
    /\ target = "funding"
    /\ i \in 1..Len(workers["funding"])
    /\ workers["funding"][i].pc = "head"
    /\ SetWorker("funding", i,
                 IF stopFlag["funding"] THEN DeadWorker("funding") ELSE At("funding", "begin"))
    /\ UNCHANGED <<target, supply, aggVars, clock, polls, callerPc, callErr, lastOp,
                   stopFlag, lock, boot, whaleData, hlpData, fundData, wsVars, trades, restVars>>

\* now = time.time()
FundingBegin(i) ==
    /\ target = "funding"
    /\ i \in 1..Len(workers["funding"])
    /\ workers["funding"][i].pc = "begin"
    /\ SetWorker("funding", i, [At("funding", "fetch") EXCEPT !.now = clock])
    /\ UNCHANGED <<target, supply, aggVars, clock, polls, callerPc, callErr, lastOp,
                   stopFlag, lock, boot, whaleData, hlpData, fundData, wsVars, trades, restVars>>

\* resp = self.rest.meta_and_asset_ctxs() returns or raises, then lines 65-76
FundingFetchReturn(i, r) ==
    /\ target = "funding"
    /\ i \in 1..Len(workers["funding"])
    /\ workers["funding"][i].pc = "fetch"
    /\ r.kind = "ok" => polls < supply
    /\ polls' = IF r.kind = "ok" THEN polls + 1 ELSE polls
    /\ LET w == workers["funding"][i] IN
       SetWorker("funding", i,
                 IF r.kind \in {"fail", "notlist"} THEN Abandoned("funding")
                 ELSE IF r.kind = "badmeta" THEN DeadWorker("funding")
                 ELSE FundingGoOn([w EXCEPT !.names = r.names, !.ctxs = r.ctxs,
                                            !.last_oi = fundLastOi], 1))
    /\ UNCHANGED <<target, supply, aggVars, clock, callerPc, callErr, lastOp,
                   stopFlag, lock, boot, whaleData, hlpData, fundData, wsVars, trades, restVars>>

\* with self._lock:
FundingAcquire(i) ==
    /\ target = "funding"
    /\ i \in 1..Len(workers["funding"])
    /\ workers["funding"][i].pc = "acquire"
    /\ lock["funding"] = 0
    /\ lock' = [lock EXCEPT !["funding"] = i]
    /\ SetWorker("funding", i, [workers["funding"][i] EXCEPT !.pc = "crit"])
    /\ UNCHANGED <<target, supply, aggVars, clock, polls, callerPc, callErr, lastOp,
                   stopFlag, boot, whaleData, hlpData, fundData, wsVars, trades, restVars>>

\* funding.py 77-110 for one tracked asset context, and the lock is released
FundingUpdate(i) ==
    /\ target = "funding"
    /\ i \in 1..Len(workers["funding"])
    /\ workers["funding"][i].pc = "crit"
    /\ LET w == workers["funding"][i]
           coin == w.names[w.idx]
           ctx == w.ctxs[w.idx]
           funding_rate == Coerce(ctx.funding)
           oi == Coerce(ctx.oi)
           hist == Appended(fundHistory[coin], w.now, funding_rate)
           zscore == ZScore(Values(hist), funding_rate)
       IN /\ fundHistory' = [fundHistory EXCEPT ![coin] = hist]
          /\ fundLastOi' = [c \in DOMAIN fundLastOi \cup {coin} |->
                               IF c = coin THEN oi ELSE fundLastOi[c]]
          /\ fundLatest' = DictSet(fundLatest, coin,
                                   FundingSignal(coin, funding_rate, zscore, oi,
                                                 OiChangePct(coin, oi), w.now))
          /\ SetWorker("funding", i, FundingGoOn(w, w.idx + 1))
    /\ lock' = Released("funding")
    /\ UNCHANGED <<target, supply, aggVars, clock, polls, callerPc, callErr, lastOp,
                   stopFlag, boot, whaleData, hlpData, wsVars, trades, restVars>>

\* time.sleep(POLL_INTERVAL_FUNDING)
FundingSleep(i, n) ==
    /\ target = "funding"
    /\ i \in 1..Len(workers["funding"])
    /\ workers["funding"][i].pc = "sleep"
    /\ SetWorker("funding", i, NewWorker("funding"))
    /\ Slept(n)
    /\ UNCHANGED <<target, supply, aggVars, polls, callerPc, callErr, lastOp,
                   stopFlag, lock, boot, whaleData, hlpData, fundData, wsVars, trades, restVars>>

\* with self._lock: return list(self._latest.values())
FundingGetSignalsEnter ==
    /\ target = "funding"
    /\ callerPc = Idle
    /\ lock["funding"] = 0
    /\ lock' = [lock EXCEPT !["funding"] = CALLER]
    /\ callerPc' = [pc |-> "gs_crit", det |-> "funding", op |-> clock]
    /\ UNCHANGED <<target, supply, aggVars, clock, polls, callErr, lastOp, lifeVars,
                   whaleData, hlpData, fundData, wsVars, trades, restVars>>

FundingGetSignalsReturn ==
    /\ target = "funding"
    /\ callerPc.pc = "gs_crit" /\ callerPc.det = "funding"
    /\ lock' = Released("funding")
    /\ Returned("funding", "get_signals")
    /\ UNCHANGED <<target, supply, aggVars, clock, polls, lifeVars, whaleData, hlpData, fundData, wsVars, trades, restVars>>

FundingGetSignals == FundingGetSignalsEnter \/ FundingGetSignalsReturn

FundingSleeps == {POLL_INTERVAL_FUNDING, HISTORY_WINDOW}

FundingPollWorker(Resp, Sleeps) ==
    \E i \in 1..MaxThreads :
        \/ FundingHead(i)
        \/ FundingBegin(i)
        \/ \E r \in Resp : FundingFetchReturn(i, r)
        \/ FundingAcquire(i)
        \/ FundingUpdate(i)
        \/ \E n \in Sleeps : FundingSleep(i, n)

----------------------------------------------------------------------------
(* HyperliquidWSClient: the thread of _run, its event loop and the task of  *)
(* _connect_loop.  The thread runs one thing at a time: a step of the task  *)
(* between two awaits, a coroutine scheduled from another thread, or the    *)
(* loop.stop callback.                                                      *)

MaxConns == 2       \* connections one behaviour may establish
MaxSubs == 4        \* subscriptions one behaviour may record
RECONNECT_DELAY == 3

NewWsThread ==
    [pc |-> "start",        \* start, created, running, closing, dead
     stopReq |-> FALSE,     \* loop.stop is scheduled on this thread's loop
     task |-> "new",        \* where the task of _connect_loop is
     k |-> 0,               \* index into self._subscriptions during the replay
     conn |-> 0,            \* the connection of the async with block
     pending |-> <<>>,      \* _send_subscribe coroutines scheduled on the loop
     msg |-> <<>>,          \* trades of the message in the handler
     now |-> 0,
     dropped |-> FALSE]     \* a frame of this connection failed json.loads
DeadWsThread == [NewWsThread EXCEPT !.pc = "dead", !.task = "done"]

\* the task is suspended in an await (or has ended): the loop may run something else
Suspended == {"new", "connecting", "replay", "recv", "backoff", "done"}

WsAlive == Len(wsThreads) > 0 /\ Last(wsThreads).pc # "dead"

\* the loop of thread i is closed
LoopClosed(i) == wsThreads[i].pc = "dead"

SetWs(i, t) == wsThreads' = [wsThreads EXCEPT ![i] = t]

\* if self._thread and self._thread.is_alive(): return
WsStartReturnsEarly == WsAlive

\* HyperliquidWSClient.start
WsStartBody ==
    IF WsStartReturnsEarly
    THEN UNCHANGED <<wsStop, wsThreads>>
    ELSE /\ Len(wsThreads) < MaxThreads
         /\ wsStop' = FALSE
         /\ wsThreads' = Append(wsThreads, NewWsThread)

\* OrderFlowImbalance.start: self._ws.start(), then the subscriptions
OrderFlowStart ==
    /\ target = "orderflow"
    /\ callerPc = Idle
    /\ Len(wsSubs) + Len(TRACKED_COINS) <= MaxSubs
    /\ WsStartBody
    /\ callerPc' = [pc |-> "of_sub", det |-> "orderflow", op |-> 1]
    /\ UNCHANGED <<target, supply, aggVars, clock, polls, callErr, lastOp, lifeVars, lock,
                   whaleData, hlpData, fundData, wsLoop, wsSock, wsSubs, wsSent,
                   conns, trades, restVars>>

\* HyperliquidWSClient.subscribe for the next tracked coin:
\* run_coroutine_threadsafe raises RuntimeError on a closed loop
OrderFlowSubscribe ==
    /\ target = "orderflow"
    /\ callerPc.pc = "of_sub"
    /\ LET k == callerPc.op
           coin == TRACKED_COINS[k]
       IN /\ wsSubs' = Append(wsSubs, coin)
          /\ IF wsLoop = 0
             THEN UNCHANGED wsThreads
             ELSE IF LoopClosed(wsLoop)
                  THEN UNCHANGED wsThreads
                  ELSE SetWs(wsLoop, [wsThreads[wsLoop] EXCEPT !.pending = Append(@, coin)])
          /\ IF wsLoop # 0 /\ LoopClosed(wsLoop)
             THEN /\ callerPc' = Idle
                  /\ callErr' = "RuntimeError"
                  /\ lastOp' = [lastOp EXCEPT !["orderflow"] = "start"]
             ELSE IF k < Len(TRACKED_COINS)
                  THEN /\ callerPc' = [callerPc EXCEPT !.op = k + 1]
                       /\ UNCHANGED <<callErr, lastOp>>
                  ELSE Returned("orderflow", "start")
    /\ UNCHANGED <<target, supply, aggVars, clock, polls, lifeVars, lock, whaleData, hlpData, fundData,
                   wsStop, wsLoop, wsSock, wsSent, conns, trades, restVars>>

\* HyperliquidWSClient.stop: self._stop.set()
WsStopSet ==
    /\ target = "orderflow"
    /\ callerPc = Idle
    /\ wsStop' = TRUE
    /\ callerPc' = [pc |-> "ws_stop_loop", det |-> "orderflow", op |-> "stop"]
    /\ UNCHANGED <<target, supply, aggVars, clock, polls, callErr, lastOp, lifeVars, lock,
                   whaleData, hlpData, fundData, wsThreads, wsLoop, wsSock, wsSubs,
                   wsSent, conns, trades, restVars>>

\* if self._loop: self._loop.call_soon_threadsafe(self._loop.stop), which raises
\* RuntimeError on a closed loop; if self._thread: join
WsStopLoop ==
    /\ target = "orderflow"
    /\ callerPc.pc = "ws_stop_loop"
    /\ IF wsLoop # 0 /\ LoopClosed(wsLoop)
       THEN /\ callerPc' = Idle
            /\ callErr' = "RuntimeError"
            /\ lastOp' = [lastOp EXCEPT !["orderflow"] = "stop"]
            /\ UNCHANGED wsThreads
       ELSE /\ IF wsLoop # 0
               THEN SetWs(wsLoop, [wsThreads[wsLoop] EXCEPT !.stopReq = TRUE])
               ELSE UNCHANGED wsThreads
            /\ IF Len(wsThreads) > 0
               THEN /\ callerPc' = [callerPc EXCEPT !.pc = "join"]
                    /\ UNCHANGED <<callErr, lastOp>>
               ELSE Returned("orderflow", "stop")
    /\ UNCHANGED <<target, supply, aggVars, clock, polls, lifeVars, lock, whaleData, hlpData, fundData,
                   wsStop, wsLoop, wsSock, wsSubs, wsSent, conns, trades, restVars>>

\* self._thread.join(timeout=5) returns
WsJoinReturn ==
    /\ target = "orderflow"
    /\ callerPc.pc = "join" /\ callerPc.det = "orderflow"
    /\ Returned("orderflow", "stop")
    /\ UNCHANGED <<target, supply, aggVars, clock, polls, lifeVars, lock, whaleData, hlpData, fundData,
                   wsVars, trades, restVars>>

OrderFlowStop == WsStopSet \/ WsStopLoop \/ WsJoinReturn

----------------------------------------------------------------------------
(* HyperliquidWSClient._run *)

\* self._loop = asyncio.new_event_loop(); self._task = create_task(...)
WsCreateLoop(i) ==
    /\ target = "orderflow"
    /\ i \in 1..Len(wsThreads)
    /\ wsThreads[i].pc = "start"
    /\ wsLoop' = i
    /\ SetWs(i, [wsThreads[i] EXCEPT !.pc = "created"])
    /\ UNCHANGED <<target, supply, aggVars, clock, polls, callerPc, callErr, lastOp, lifeVars, lock,
                   whaleData, hlpData, fundData, wsStop, wsSock, wsSubs, wsSent,
                   conns, trades, restVars>>

\* self._loop.run_forever() is entered
WsRunForever(i) ==
    /\ target = "orderflow"
    /\ i \in 1..Len(wsThreads)
    /\ wsThreads[i].pc = "created"
    /\ SetWs(i, [wsThreads[i] EXCEPT !.pc = "running"])
    /\ UNCHANGED <<target, supply, aggVars, clock, polls, callerPc, callErr, lastOp, lifeVars, lock,
                   whaleData, hlpData, fundData, wsStop, wsLoop, wsSock, wsSubs,
                   wsSent, conns, trades, restVars>>

\* the loop runs the loop.stop callback: run_forever returns
WsLoopStops(i) ==
    /\ target = "orderflow"
    /\ i \in 1..Len(wsThreads)
    /\ wsThreads[i].pc = "running"
    /\ wsThreads[i].stopReq
    /\ wsThreads[i].task \in Suspended
    /\ SetWs(i, [wsThreads[i] EXCEPT !.pc = "closing"])
    /\ UNCHANGED <<target, supply, aggVars, clock, polls, callerPc, callErr, lastOp, lifeVars, lock,
                   whaleData, hlpData, fundData, wsStop, wsLoop, wsSock, wsSubs,
                   wsSent, conns, trades, restVars>>

\* finally: self._task.cancel(); run_until_complete(self._task); self._loop.close()
WsFinally(i) ==
    /\ target = "orderflow"
    /\ i \in 1..Len(wsThreads)
    /\ wsThreads[i].pc = "closing"
    /\ SetWs(i, DeadWsThread)
    /\ UNCHANGED <<target, supply, aggVars, clock, polls, callerPc, callErr, lastOp, lifeVars, lock,
                   whaleData, hlpData, fundData, wsStop, wsLoop, wsSock, wsSubs,
                   wsSent, conns, trades, restVars>>

\* connection c is open: a task is inside its async with block
ConnOpen(c) == c # 0 /\ \E i \in 1..Len(wsThreads) : wsThreads[i].conn = c

SentNowhere(sock, coin) == wsSent

\* _send_subscribe: ws = self._ws; if ws: await ws.send(...), which writes
\* nothing on a connection that is closed
SentOn(sock, coin) == IF ConnOpen(sock) THEN Append(wsSent, <<sock, coin>>) ELSE wsSent

\* the loop runs a _send_subscribe scheduled by subscribe()
WsRunPending(i) ==
    /\ target = "orderflow"
    /\ i \in 1..Len(wsThreads)
    /\ wsThreads[i].pc = "running"
    /\ wsThreads[i].task \in Suspended
    /\ wsThreads[i].pending # <<>>
    /\ wsSent' = SentOn(wsSock, Head(wsThreads[i].pending))
    /\ SetWs(i, [wsThreads[i] EXCEPT !.pending = Tail(@)])
    /\ UNCHANGED <<target, supply, aggVars, clock, polls, callerPc, callErr, lastOp, lifeVars, lock,
                   whaleData, hlpData, fundData, wsStop, wsLoop, wsSock, wsSubs,
                   conns, trades, restVars>>

----------------------------------------------------------------------------
(* Inbound frames and OrderFlowImbalance._on_message *)

Trade(coin, side, px, sz, usd) ==
    [t |-> "dict", coin |-> coin, side |-> side, px |-> px, sz |-> sz, usd |-> usd]
NotATrade == [t |-> "other", coin |-> None, side |-> None, px |-> Absent,
              sz |-> Absent, usd |-> Absent]

FrameBad == [kind |-> "undecodable", trades |-> <<>>]   \* json.loads raises
MsgNoData == [kind |-> "nodata", trades |-> <<>>]       \* no "data", or an empty one
MsgOther == [kind |-> "other", trades |-> <<>>]         \* channel is not "trades"
MsgBadData == [kind |-> "baddata", trades |-> <<>>]     \* "data" is a string or a number
MsgTrades(ts) == [kind |-> "trades", trades |-> ts]

\* str(side).upper().startswith("B")
BuySpellings == {"B", "buy", "Bid"}
SideOf(side) == IF side \in BuySpellings THEN "B" ELSE "S"

\* orderflow.py 62-64: usd of one trade, or the exception of float()
UsdOf(trade) ==
    IF trade.px.t = "bad" \/ trade.sz.t = "bad" \/ trade.usd.t = "bad"
    THEN [raised |-> TRUE, usd |-> 0]
    ELSE [raised |-> FALSE,
          usd |-> IF trade.usd.t = "num" THEN trade.usd.v
                  ELSE Coerce(trade.px) * Coerce(trade.sz)]

TradeEvent(now, side, usd) == [ts |-> now, side |-> side, usd |-> usd]

\* the for loop of orderflow.py 56-65 from trade i on: the buffers, and whether
\* it raised
RECURSIVE AppendTrades(_, _, _, _)
AppendTrades(buf, ts, i, now) ==
    IF i > Len(ts) THEN [raised |-> FALSE, trades |-> buf]
    ELSE LET trade == ts[i] IN
         IF trade.t # "dict" THEN [raised |-> TRUE, trades |-> buf]
         ELSE IF trade.coin \notin CoinSet THEN AppendTrades(buf, ts, i + 1, now)
         ELSE IF UsdOf(trade).raised THEN [raised |-> TRUE, trades |-> buf]
         ELSE AppendTrades(
                  [buf EXCEPT ![trade.coin] =
                      Append(@, TradeEvent(now, SideOf(trade.side), UsdOf(trade).usd))],
                  ts, i + 1, now)

\* while dq and dq[0][0] < cutoff: dq.popleft()
RECURSIVE PopOld(_, _)
PopOld(dq, cutoff) ==
    IF dq # <<>> /\ Head(dq).ts < cutoff THEN PopOld(Tail(dq), cutoff) ELSE dq

\* OrderFlowImbalance._trim
Trimmed(buf, now) == [c \in CoinSet |-> PopOld(buf[c], now - MAX_WINDOW)]

FailedEnds(t) ==
    [t EXCEPT !.task = "done", !.conn = 0, !.k = 0, !.msg = <<>>, !.dropped = FALSE]

\* except Exception: self._ws = None; await asyncio.sleep(self.reconnect_delay)
Failed(t) ==
    [t EXCEPT !.task = "backoff", !.conn = 0, !.k = 0, !.msg = <<>>, !.dropped = FALSE]

\* while not self._stop.is_set()
LoopHead == IF wsStop THEN "done" ELSE "connecting"

WsTaskUnchanged ==
    UNCHANGED <<target, supply, aggVars, clock, polls, callerPc, callErr, lastOp, lifeVars,
                whaleData, hlpData, fundData, wsStop, wsLoop, wsSubs, restVars>>

OnLoop(i, at) ==
    /\ target = "orderflow"
    /\ i \in 1..Len(wsThreads)
    /\ wsThreads[i].pc = "running"
    /\ wsThreads[i].task = at

\* the first step of the task
WsTaskStart(i) ==
    /\ OnLoop(i, "new")
    /\ SetWs(i, [wsThreads[i] EXCEPT !.task = LoopHead])
    /\ WsTaskUnchanged
    /\ UNCHANGED <<lock, wsSock, wsSent, conns, trades>>

\* async with websockets.connect(...) as ws: with self._ws_lock: self._ws = ws
WsConnect(i, ok, budget) ==
    /\ OnLoop(i, "connecting")
    /\ ok => conns < budget
    /\ IF ok
       THEN /\ conns' = conns + 1
            /\ wsSock' = conns + 1
            /\ SetWs(i, [wsThreads[i] EXCEPT
                            !.conn = conns + 1,
                            !.task = IF wsSubs = <<>> THEN "recv" ELSE "replay",
                            !.k = IF wsSubs = <<>> THEN 0 ELSE 1])
       ELSE /\ wsSock' = 0
            /\ SetWs(i, Failed(wsThreads[i]))
            /\ UNCHANGED conns
    /\ WsTaskUnchanged
    /\ UNCHANGED <<lock, wsSent, trades>>

WsReplaySkips(i, ok) ==
    /\ OnLoop(i, "replay")
    /\ SetWs(i, [wsThreads[i] EXCEPT !.task = "recv", !.k = 0])
    /\ WsTaskUnchanged
    /\ UNCHANGED <<lock, wsSock, wsSent, conns, trades>>

\* for sub in self._subscriptions: await self._send_subscribe(sub)
WsReplay(i, ok) ==
    /\ OnLoop(i, "replay")
    /\ LET t == wsThreads[i] IN
       IF ok
       THEN /\ wsSent' = SentOn(wsSock, wsSubs[t.k])
            /\ SetWs(i, IF t.k < Len(wsSubs) THEN [t EXCEPT !.k = t.k + 1]
                        ELSE [t EXCEPT !.task = "recv", !.k = 0])
            /\ UNCHANGED wsSock
       ELSE /\ wsSock' = 0
            /\ SetWs(i, Failed(t))
            /\ UNCHANGED wsSent
    /\ WsTaskUnchanged
    /\ UNCHANGED <<lock, conns, trades>>

WsRecvStrict(i, m) ==
    /\ OnLoop(i, "recv")
    /\ m.kind = "trades" => polls < supply
    /\ LET t == wsThreads[i] IN
       IF m.kind \in {"baddata", "undecodable"}
       THEN /\ wsSock' = 0
            /\ SetWs(i, Failed(t))
       ELSE /\ UNCHANGED wsSock
            /\ SetWs(i, IF m.kind = "trades"
                        THEN [t EXCEPT !.task = "om_acquire", !.msg = m.trades,
                                       !.now = clock]
                        ELSE IF m.kind = "undecodable"
                        THEN [t EXCEPT !.dropped = TRUE]
                        ELSE t)
    /\ polls' = IF m.kind = "trades" THEN polls + 1 ELSE polls
    /\ UNCHANGED <<target, supply, aggVars, clock, callerPc, callErr, lastOp, lifeVars,
                   whaleData, hlpData, fundData, wsStop, wsLoop, wsSubs>>
    /\ UNCHANGED <<lock, wsSent, conns, trades, restVars>>

\* async for message in ws: json.loads, then on_message up to orderflow.py 54
WsRecv(i, m) ==
    /\ OnLoop(i, "recv")
    /\ m.kind = "trades" => polls < supply
    /\ LET t == wsThreads[i] IN
       IF m.kind = "baddata"
       THEN /\ wsSock' = 0
            /\ SetWs(i, Failed(t))
       ELSE /\ UNCHANGED wsSock
            /\ SetWs(i, IF m.kind = "trades"
                        THEN [t EXCEPT !.task = "om_acquire", !.msg = m.trades,
                                       !.now = clock]
                        ELSE IF m.kind = "undecodable"
                        THEN [t EXCEPT !.dropped = TRUE]
                        ELSE t)
    /\ polls' = IF m.kind = "trades" THEN polls + 1 ELSE polls
    /\ UNCHANGED <<target, supply, aggVars, clock, callerPc, callErr, lastOp, lifeVars,
                   whaleData, hlpData, fundData, wsStop, wsLoop, wsSubs>>
    /\ UNCHANGED <<lock, wsSent, conns, trades, restVars>>

\* the connection ends: async for finishes (a clean close) or raises
WsConnClosed(i, clean) ==
    /\ OnLoop(i, "recv")
    /\ LET t == wsThreads[i] IN
       IF clean
       THEN /\ SetWs(i, [t EXCEPT !.task = LoopHead, !.conn = 0, !.dropped = FALSE])
            /\ UNCHANGED wsSock
       ELSE /\ wsSock' = 0
            /\ SetWs(i, Failed(t))
    /\ WsTaskUnchanged
    /\ UNCHANGED <<lock, wsSent, conns, trades>>

\* await asyncio.sleep(self.reconnect_delay) is over
WsBackoffOver(i) ==
    /\ OnLoop(i, "backoff")
    /\ SetWs(i, [wsThreads[i] EXCEPT !.task = LoopHead])
    /\ WsTaskUnchanged
    /\ UNCHANGED <<lock, wsSock, wsSent, conns, trades>>

\* _on_message: with self._lock:
WsHandlerAcquire(i) ==
    /\ OnLoop(i, "om_acquire")
    /\ lock["orderflow"] = 0
    /\ lock' = [lock EXCEPT !["orderflow"] = i]
    /\ SetWs(i, [wsThreads[i] EXCEPT !.task = "om_crit"])
    /\ WsTaskUnchanged
    /\ UNCHANGED <<wsSock, wsSent, conns, trades>>

WsHandlerAppendHolds(i) ==
    /\ OnLoop(i, "om_crit")
    /\ LET t == wsThreads[i]
           r == AppendTrades(trades, t.msg, 1, t.now)
       IN /\ trades' = r.trades
          /\ IF r.raised
             THEN /\ wsSock' = 0
                  /\ SetWs(i, Failed(t))
             ELSE /\ UNCHANGED wsSock
                  /\ SetWs(i, [t EXCEPT !.task = "trim_acquire", !.msg = <<>>])
          /\ lock' = IF r.raised THEN Released("orderflow") ELSE lock
    /\ WsTaskUnchanged
    /\ UNCHANGED <<wsSent, conns>>

\* orderflow.py 56-65; the lock is released, also by an exception
WsHandlerAppend(i) ==
    /\ OnLoop(i, "om_crit")
    /\ LET t == wsThreads[i]
           r == AppendTrades(trades, t.msg, 1, t.now)
       IN /\ trades' = r.trades
          /\ IF r.raised
             THEN /\ wsSock' = 0
                  /\ SetWs(i, Failed(t))
             ELSE /\ UNCHANGED wsSock
                  /\ SetWs(i, [t EXCEPT !.task = "trim_acquire", !.msg = <<>>])
    /\ lock' = Released("orderflow")
    /\ WsTaskUnchanged
    /\ UNCHANGED <<wsSent, conns>>

\* _trim: with self._lock:
WsTrimAcquire(i) ==
    /\ OnLoop(i, "trim_acquire")
    /\ lock["orderflow"] = 0
    /\ lock' = [lock EXCEPT !["orderflow"] = i]
    /\ SetWs(i, [wsThreads[i] EXCEPT !.task = "trim_crit"])
    /\ WsTaskUnchanged
    /\ UNCHANGED <<wsSock, wsSent, conns, trades>>

\* orderflow.py 72-75, and the lock is released
WsTrim(i) ==
    /\ OnLoop(i, "trim_crit")
    /\ trades' = Trimmed(trades, wsThreads[i].now)
    /\ lock' = Released("orderflow")
    /\ SetWs(i, [wsThreads[i] EXCEPT !.task = "recv", !.now = 0])
    /\ WsTaskUnchanged
    /\ UNCHANGED <<wsSock, wsSent, conns>>

\* time passes while the task waits for a frame
WsWait(i, n) ==
    /\ OnLoop(i, "recv")
    /\ CanAdvance(n)
    /\ clock' = clock + n
    /\ UNCHANGED <<target, supply, aggVars, polls, callerPc, callErr, lastOp, lifeVars, lock,
                   whaleData, hlpData, fundData, wsVars, trades, restVars>>

\* the steps of the task of _connect_loop on thread i
WsTask(i, Frames, budget) ==
    \/ WsTaskStart(i)
    \/ \E ok \in BOOLEAN : WsConnect(i, ok, budget)
    \/ \E ok \in BOOLEAN : WsReplay(i, ok)
    \/ \E m \in Frames : WsRecv(i, m)
    \/ \E clean \in BOOLEAN : WsConnClosed(i, clean)
    \/ WsBackoffOver(i)
    \/ WsHandlerAcquire(i)
    \/ WsHandlerAppend(i)
    \/ WsTrimAcquire(i)
    \/ WsTrim(i)

WsThread(Frames, budget) ==
    \E i \in 1..MaxThreads :
        \/ WsCreateLoop(i)
        \/ WsRunForever(i)
        \/ WsLoopStops(i)
        \/ WsFinally(i)
        \/ WsRunPending(i)
        \/ WsTask(i, Frames, budget)

----------------------------------------------------------------------------
(* OrderFlowImbalance.get_signals *)

LARGE_TRADE_THRESHOLD == [c \in CoinSet |-> IF c = "ETH" THEN 50000 ELSE 25000]

\* the events of one side with ts >= cutoff, and their volume
RECURSIVE Volume(_, _, _)
Volume(events, side, cutoff) ==
    IF events = <<>> THEN 0
    ELSE (IF Head(events).ts >= cutoff /\ Head(events).side = side
          THEN Head(events).usd ELSE 0)
         + Volume(Tail(events), side, cutoff)

LargeOfAbove(events, coin, side, cutoff) ==
    LET large == {j \in 1..Len(events) :
                     /\ events[j].ts >= cutoff
                     /\ events[j].side = side
                     /\ events[j].usd > LARGE_TRADE_THRESHOLD[coin]}
    IN [j \in 1..Len(events) |-> IF j \in large THEN events[j].usd ELSE 0]

\* usd >= threshold and threshold > 0
LargeOf(events, coin, side, cutoff) ==
    LET large == {j \in 1..Len(events) :
                     /\ events[j].ts >= cutoff
                     /\ events[j].side = side
                     /\ events[j].usd >= LARGE_TRADE_THRESHOLD[coin]
                     /\ LARGE_TRADE_THRESHOLD[coin] > 0}
    IN [j \in 1..Len(events) |-> IF j \in large THEN events[j].usd ELSE 0]

Count(s) == Cardinality({j \in 1..Len(s) : s[j] # 0})

OrderFlowSignal(coin, window, now) ==
    LET events == trades[coin]
        cutoff == now - window
        buy_vol == Volume(events, "B", cutoff)
        sell_vol == Volume(events, "S", cutoff)
        denom == buy_vol + sell_vol
    IN [coin |-> coin, window |-> window,
        imbalance |-> IF denom > 0 THEN Quot((buy_vol - sell_vol) * FP, denom) ELSE 0,
        large_buy_count |-> Count(LargeOf(events, coin, "B", cutoff)),
        large_sell_count |-> Count(LargeOf(events, coin, "S", cutoff)),
        net_large_flow |-> Sum(LargeOf(events, coin, "B", cutoff))
                           - Sum(LargeOf(events, coin, "S", cutoff)),
        timestamp |-> now]

\* one signal per (coin, window), coins outermost
OrderFlowGetSignalsValue(now) ==
    LET nw == Len(ORDERFLOW_WINDOWS) IN
    [j \in 1..(Len(TRACKED_COINS) * nw) |->
        OrderFlowSignal(TRACKED_COINS[((j - 1) \div nw) + 1],
                        ORDERFLOW_WINDOWS[((j - 1) % nw) + 1], now)]

\* now = time.time(); with self._lock:
OrderFlowGetSignalsEnter ==
    /\ target = "orderflow"
    /\ callerPc = Idle
    /\ lock["orderflow"] = 0
    /\ lock' = [lock EXCEPT !["orderflow"] = CALLER]
    /\ callerPc' = [pc |-> "gs_crit", det |-> "orderflow", op |-> clock]
    /\ UNCHANGED <<target, supply, aggVars, clock, polls, callErr, lastOp, lifeVars,
                   whaleData, hlpData, fundData, wsVars, trades, restVars>>

\* orderflow.py 81-118
OrderFlowGetSignalsReturn ==
    /\ target = "orderflow"
    /\ callerPc.pc = "gs_crit" /\ callerPc.det = "orderflow"
    /\ lock' = Released("orderflow")
    /\ Returned("orderflow", "get_signals")
    /\ UNCHANGED <<target, supply, aggVars, clock, polls, lifeVars, whaleData, hlpData, fundData,
                   wsVars, trades, restVars>>

OrderFlowGetSignals == OrderFlowGetSignalsEnter \/ OrderFlowGetSignalsReturn

----------------------------------------------------------------------------
(* SignalAggregator *)

\* config.SIGNAL_WEIGHTS, in hundredths
SIGNAL_WEIGHTS == [orderflow |-> 30, whales |-> 25, hlp |-> 25, funding |-> 20]

Min(a, b) == IF a <= b THEN a ELSE b

\* sum(s.imbalance for s in signals) / len(signals), 0.0 for no signals
orderflow_score(signals) ==
    IF signals = <<>> THEN 0
    ELSE Quot(Sum([j \in 1..Len(signals) |-> signals[j].imbalance]), Len(signals))

\* (signal.whale_long_pct - signal.whale_short_pct) / 100.0
whale_score(signal) == Quot(signal.whale_long_pct - signal.whale_short_pct, 100)

hlp_score(signal) ==
    IF signal.direction = "LONG" THEN -Min(FP, Abs(signal.z_score) \div 2)
    ELSE IF signal.direction = "SHORT" THEN Min(FP, Abs(signal.z_score) \div 2)
    ELSE 0

funding_score(signal) ==
    IF signal.funding_zscore > 0 THEN -Min(FP, Abs(signal.funding_zscore) \div 2)
    ELSE IF signal.funding_zscore < 0 THEN Min(FP, Abs(signal.funding_zscore) \div 2)
    ELSE 0

RecommendationStrict(weighted) ==
    IF 10 * weighted > 6 * FP THEN "STRONG_LONG"
    ELSE IF 10 * weighted > 2 * FP THEN "LEAN_LONG"
    ELSE IF 10 * weighted < -6 * FP THEN "STRONG_SHORT"
    ELSE IF 10 * weighted < -2 * FP THEN "LEAN_SHORT"
    ELSE "NEUTRAL"

\* signals.py 105-113
Recommendation(weighted) ==
    IF 10 * weighted >= 6 * FP THEN "STRONG_LONG"
    ELSE IF 10 * weighted >= 2 * FP THEN "LEAN_LONG"
    ELSE IF 10 * weighted <= -6 * FP THEN "STRONG_SHORT"
    ELSE IF 10 * weighted <= -2 * FP THEN "LEAN_SHORT"
    ELSE "NEUTRAL"

\* signals.py 91-128 for one coin; a detector without a signal for the coin
\* contributes 0.0
CompositeSignal(coin, now) ==
    LET of == SelectSeq(OrderFlowGetSignalsValue(now), LAMBDA sg : sg.coin = coin)
        components ==
            [orderflow |-> orderflow_score(of),
             whales |-> whale_score(WhaleSignalOf(coin, now)),
             hlp |-> IF coin \in Keys(hlpLatest)
                     THEN hlp_score(DictGet(hlpLatest, coin, None)) ELSE 0,
             funding |-> IF coin \in Keys(fundLatest)
                         THEN funding_score(DictGet(fundLatest, coin, None)) ELSE 0]
        weighted == Quot(components.orderflow * SIGNAL_WEIGHTS.orderflow
                         + components.whales * SIGNAL_WEIGHTS.whales
                         + components.hlp * SIGNAL_WEIGHTS.hlp
                         + components.funding * SIGNAL_WEIGHTS.funding, 100)
    IN [coin |-> coin, score |-> weighted, components |-> components,
        timestamp |-> now, recommendation |-> Recommendation(weighted)]

\* SignalAggregator.get_composite_signals: the exception it ends with, or the
\* list it returns
get_composite_signals(now) ==
    IF WhaleGetSignalsRaises
    THEN [raised |-> TRUE, composites |-> <<>>]
    ELSE [raised |-> FALSE,
          composites |-> [j \in 1..Len(TRACKED_COINS) |->
                             CompositeSignal(TRACKED_COINS[j], now)]]

\* the call reaches the get_signals() of the object of this behaviour, which
\* takes the object's lock; the other three detectors have no worker
CompositeEnter ==
    /\ callerPc = Idle
    /\ lock[target] = 0
    /\ lock' = [lock EXCEPT ![target] = CALLER]
    /\ callerPc' = [pc |-> "cs_crit", det |-> target, op |-> clock]
    /\ UNCHANGED <<target, supply, aggVars, clock, polls, callErr, lastOp, lifeVars,
                   whaleData, hlpData, fundData, wsVars, trades, restVars>>

CompositeReturn ==
    /\ callerPc.pc = "cs_crit"
    /\ lock' = Released(target)
    /\ IF get_composite_signals(callerPc.op).raised
       THEN Raised(target, "get_composite_signals", "TypeError")
       ELSE Returned(target, "get_composite_signals")
    /\ UNCHANGED <<target, supply, aggVars, clock, polls, lifeVars, whaleData, hlpData, fundData,
                   wsVars, trades, restVars>>

GetCompositeSignals == CompositeEnter \/ CompositeReturn

\* the scores a composite can have: weights that sum to 1.0, components in [-1, 1]
Scores == (-FP)..FP

\* signals.py 99-113 for a composite whose weighted score is x
Recommend(x) ==
    /\ compScore' = x
    /\ compRec' = Recommendation(x)
    /\ UNCHANGED <<target, supply, clock, polls, callerPc, callErr, lastOp, lifeVars, lock,
                   whaleData, hlpData, fundData, wsVars, trades, restVars>>

----------------------------------------------------------------------------
(* HyperliquidRESTClient._post and RateLimiter.wait, for the four threads    *)
(* that issue REST requests.  Time is in milliseconds.                       *)

MaxRequests == 2    \* requests one behaviour may issue
TickMs == 50        \* the step of the millisecond clock
MaxTicks == 3       \* steps the millisecond clock may take
MsEpoch == 1000     \* time.time() when the behaviour begins

MAX_RPS == 10                          \* HyperliquidRESTClient(max_rps=10.0)
MIN_INTERVAL_MS == 1000 \div MAX_RPS   \* self.min_interval = 1.0 / max_per_sec

RestWorkers == {"whales", "boot", "hlp", "funding"}
Free == ""

\* self.rest = HyperliquidRESTClient() in each detector's __init__; the
\* bootstrap thread uses the whale tracker's
ClientOf(w) == IF w = "boot" THEN "whales" ELSE w

Clients == {ClientOf(w) : w \in RestWorkers}

RETRIES == 3          \* retries = 3
BACKOFF_MS == 500     \* backoff = 0.5

\* what one session.post can produce: a response with a status code whose body
\* parses as JSON or not, or (code 0) an exception of the transport
HttpResp(code, parses) == [code |-> code, parses |-> parses]
ConnError == HttpResp(0, FALSE)
PostOutcomes ==
    {HttpResp(200, TRUE), HttpResp(200, FALSE), HttpResp(404, FALSE),
     HttpResp(429, FALSE), HttpResp(500, FALSE), ConnError}
OkOutcomes == {HttpResp(200, TRUE)}

\* if resp.status_code >= 500 or resp.status_code == 429: raise requests.HTTPError
Retryable(r) == r.code >= 500 \/ r.code = 429

\* resp.raise_for_status() raises for a status from 400 to 599
RaisesForStatus(r) == r.code >= 400 /\ r.code < 600

NoExc == <<"None", 0>>

\* the exception one attempt's try block ends with (NoExc: it returns)
AttemptExc(r) ==
    IF r.code = 0 THEN <<"ConnectionError", 0>>
    ELSE IF Retryable(r) THEN <<"HTTPError", r.code>>
    ELSE IF RaisesForStatus(r) THEN <<"HTTPError", r.code>>
    ELSE IF ~r.parses THEN <<"JSONDecodeError", r.code>>
    ELSE NoExc

\* raise RuntimeError(f"REST request failed: {last_exc}")
RuntimeError(cause) == [raised |-> TRUE, cause |-> cause]

\* return RestRequest(payload=payload, response=resp.json())
RestRequest == [raised |-> FALSE, cause |-> NoExc]

SameBackoff(b) == b

\* backoff *= 2
NextBackoff(b) == b * 2

Rq(pc, wake, attempt, backoff, slept, last_exc, res) ==
    [pc |-> pc, wake |-> wake, attempt |-> attempt, backoff |-> backoff,
     slept |-> slept, last_exc |-> last_exc, res |-> res]

RqIdle == Rq("idle", 0, 0, BACKOFF_MS, <<>>, NoExc, RestRequest)

\* the requests issued that have not left RateLimiter.wait
Waiting == {v \in RestWorkers : rq[v].pc \in {"lim_acquire", "lim_crit", "lim_sleep", "lim_stamp"}}

RestUnchanged ==
    UNCHANGED <<target, supply, aggVars, clock, polls, callerPc, callErr, lastOp, lifeVars, lock,
                whaleData, hlpData, fundData, wsVars, trades>>

\* a worker calls self.rest._post(payload): self.limiter.wait()
RestCall(w) ==
    /\ target = "rest"
    /\ rq[w].pc \in {"idle", "done"}
    /\ Len(passed) + Cardinality(Waiting) < MaxRequests
    /\ rq' = [rq EXCEPT ![w] = Rq("lim_acquire", 0, 0, BACKOFF_MS, <<>>, NoExc, RestRequest)]
    /\ UNCHANGED <<msClock, lastTs, limLock, passed>>
    /\ RestUnchanged

LimAcquireNoLock(w) ==
    /\ target = "rest"
    /\ rq[w].pc = "lim_acquire"
    /\ limLock' = [limLock EXCEPT ![ClientOf(w)] = w]
    /\ rq' = [rq EXCEPT ![w].pc = "lim_crit"]
    /\ UNCHANGED <<msClock, lastTs, passed>>
    /\ RestUnchanged

\* RateLimiter.wait: with self._lock:
LimAcquire(w) ==
    /\ target = "rest"
    /\ rq[w].pc = "lim_acquire"
    /\ limLock[ClientOf(w)] = Free
    /\ limLock' = [limLock EXCEPT ![ClientOf(w)] = w]
    /\ rq' = [rq EXCEPT ![w].pc = "lim_crit"]
    /\ UNCHANGED <<msClock, lastTs, passed>>
    /\ RestUnchanged

\* now = time.time(); delta = now - self._last_ts;
\* if delta < self.min_interval: time.sleep(self.min_interval - delta)
LimCheck(w) ==
    /\ target = "rest"
    /\ rq[w].pc = "lim_crit"
    /\ LET delta == msClock - lastTs[ClientOf(w)] IN
       rq' = [rq EXCEPT ![w].pc = IF delta < MIN_INTERVAL_MS THEN "lim_sleep" ELSE "lim_stamp",
                        ![w].wake = IF delta < MIN_INTERVAL_MS
                                    THEN msClock + (MIN_INTERVAL_MS - delta) ELSE 0]
    /\ UNCHANGED <<msClock, lastTs, limLock, passed>>
    /\ RestUnchanged

\* time.sleep returns, not before the time asked for
LimWake(w) ==
    /\ target = "rest"
    /\ rq[w].pc = "lim_sleep"
    /\ msClock >= rq[w].wake
    /\ rq' = [rq EXCEPT ![w].pc = "lim_stamp", ![w].wake = 0]
    /\ UNCHANGED <<msClock, lastTs, limLock, passed>>
    /\ RestUnchanged

\* self._last_ts = time.time(); the lock is released and wait() returns
LimStamp(w) ==
    /\ target = "rest"
    /\ rq[w].pc = "lim_stamp"
    /\ lastTs' = [lastTs EXCEPT ![ClientOf(w)] = msClock]
    /\ limLock' = [limLock EXCEPT ![ClientOf(w)] = Free]
    /\ passed' = Append(passed, [by |-> w, at |-> msClock])
    /\ rq' = [rq EXCEPT ![w].pc = "send"]
    /\ UNCHANGED msClock
    /\ RestUnchanged

\* one attempt of the for loop that ends the call: the response parses and is
\* returned, or the last attempt fails and RuntimeError(last_exc) is raised
RestReturn(w, r) ==
    /\ target = "rest"
    /\ rq[w].pc = "send"
    /\ AttemptExc(r) # NoExc => rq[w].attempt = RETRIES - 1
    /\ LET last_exc == IF AttemptExc(r) = NoExc THEN rq[w].last_exc ELSE AttemptExc(r) IN
       rq' = [rq EXCEPT ![w].pc = "done",
                        ![w].last_exc = last_exc,
                        ![w].res = IF AttemptExc(r) = NoExc THEN RestRequest
                                   ELSE RuntimeError(last_exc)]
    /\ UNCHANGED <<msClock, lastTs, limLock, passed>>
    /\ RestUnchanged

\* an attempt that fails with attempts left: except Exception as exc:
\* last_exc = exc; time.sleep(backoff)
RestRetry(w, r) ==
    /\ target = "rest"
    /\ rq[w].pc = "send"
    /\ AttemptExc(r) # NoExc
    /\ rq[w].attempt # RETRIES - 1
    /\ rq' = [rq EXCEPT ![w].pc = "backoff",
                        ![w].last_exc = AttemptExc(r),
                        ![w].wake = msClock + rq[w].backoff,
                        ![w].slept = Append(rq[w].slept, rq[w].backoff)]
    /\ UNCHANGED <<msClock, lastTs, limLock, passed>>
    /\ RestUnchanged

\* time.sleep(backoff) returns; backoff *= 2; the next attempt begins
RestBackoffOver(w) ==
    /\ target = "rest"
    /\ rq[w].pc = "backoff"
    /\ msClock >= rq[w].wake
    /\ rq' = [rq EXCEPT ![w].pc = "send", ![w].wake = 0,
                        ![w].attempt = rq[w].attempt + 1,
                        ![w].backoff = NextBackoff(rq[w].backoff)]
    /\ UNCHANGED <<msClock, lastTs, limLock, passed>>
    /\ RestUnchanged

\* time passes
RestTick ==
    /\ target = "rest"
    /\ msClock + TickMs <= MsEpoch + MaxTicks * TickMs
    /\ msClock' = msClock + TickMs
    /\ UNCHANGED <<lastTs, limLock, rq, passed>>
    /\ RestUnchanged

\* the times at which a sleeping thread is due
Due == {rq[w].wake : w \in {v \in RestWorkers : rq[v].pc \in {"lim_sleep", "backoff"}
                                              /\ rq[v].wake > msClock}}

\* time passes until the sleeper that is due first is due
RestSleepPasses ==
    /\ target = "rest"
    /\ Due # {}
    /\ msClock' = CHOOSE t \in Due : \A u \in Due : t <= u
    /\ UNCHANGED <<lastTs, limLock, rq, passed>>
    /\ RestUnchanged

\* the objects as constructed; the upstream delivers n responses that carry data
InitWith(objects, n) ==
    /\ target \in objects
    /\ supply = n
    /\ created = <<>>
    /\ compScore = 0
    /\ compRec = "NEUTRAL"
    /\ clock = 0
    /\ polls = 0
    /\ callerPc = Idle
    /\ callErr = None
    /\ lastOp = [d \in Targets |-> None]
    /\ stopFlag = [d \in Pollers |-> FALSE]
    /\ workers = [d \in Pollers |-> <<>>]
    /\ lock = [d \in Targets |-> 0]
    /\ boot = <<>>
    /\ whales = <<>>
    /\ lastPositions = EmptyMap
    /\ recentChanges = <<>>
    /\ hlpHistory = [c \in CoinSet |-> <<>>]
    /\ hlpLatest = <<>>
    /\ fundHistory = [c \in CoinSet |-> <<>>]
    /\ fundLatest = <<>>
    /\ fundLastOi = EmptyMap
    /\ wsStop = FALSE
    /\ wsThreads = <<>>
    /\ wsLoop = 0
    /\ wsSock = 0
    /\ wsSubs = <<>>
    /\ wsSent = <<>>
    /\ conns = 0
    /\ trades = [c \in CoinSet |-> <<>>]
    /\ msClock = MsEpoch
    /\ lastTs = [c \in Clients |-> 0]
    /\ limLock = [c \in Clients |-> Free]
    /\ rq = [w \in RestWorkers |-> RqIdle]
    /\ passed = <<>>

InitOf(objects) == InitWith(objects, MaxPolls)

Init == InitOf(Targets)

----------------------------------------------------------------------------
(* Life cycle: the caller starts and stops the object any number of times;  *)
(* the upstream answers with a failure, a malformed body or one fixed body. *)

LifeWhaleResponses == {RFail, RNotDict, ROk(<<Entry("ETH", Num(1))>>)}
LifeLbResponses == {LbFail, LbList(<<StrItem("A")>>)}

LifeMidsResponses == {MFail, MFlat(<<Price("ETH", Num(2))>>)}
LifeFundingResponses ==
    {FFail, FBadMeta, FOk(<<"ETH">>, <<Ctx(Num(1), Num(10))>>)}
LifeConns == 1   \* connections a life-cycle behaviour may establish
LifeFrames ==
    {FrameBad, MsgBadData, MsgTrades(<<Trade("ETH", "B", Num(1), Num(1), Absent)>>)}

NextLife ==
    \/ WhaleStart
    \/ WhaleStop
    \/ WhalePollWorker(LifeWhaleResponses)
    \/ WhaleBootWorker(LifeLbResponses)
    \/ HlpStart
    \/ HlpStop
    \/ HlpPollWorker(LifeWhaleResponses, LifeMidsResponses, {POLL_INTERVAL_HLP})
    \/ FundingStart
    \/ FundingStop
    \/ FundingPollWorker(LifeFundingResponses, {POLL_INTERVAL_FUNDING})
    \/ OrderFlowStart
    \/ OrderFlowSubscribe
    \/ OrderFlowStop
    \/ WsThread(LifeFrames, LifeConns)
    \/ WhaleGetSignals
    \/ HlpGetSignals
    \/ FundingGetSignals
    \/ OrderFlowGetSignals

SpecLife == Init /\ [][NextLife]_vars

(* The WebSocket client's connections: the caller starts the order-flow     *)
(* detector, which subscribes, while connections are made, fail, close and  *)
(* deliver frames of every kind.                                            *)

WsFrames == {FrameBad, MsgNoData, MsgTrades(<<Trade("ETH", "B", Num(1), Num(1), Absent)>>)}

NextWs ==
    \/ OrderFlowStart
    \/ OrderFlowSubscribe
    \/ \E i \in 1..MaxThreads :
          \/ WsCreateLoop(i)
          \/ WsRunForever(i)
          \/ WsRunPending(i)
          \/ WsTask(i, WsFrames, MaxConns)

SpecWs == InitOf({"orderflow"}) /\ [][NextWs]_vars

(* The order-flow detector's data: the caller starts the detector once and  *)
(* reads signals while trades of every shape arrive and time passes.        *)

FlowFrames ==
    {MsgOther,
     MsgTrades(<<Trade("ETH", "B", Num(1), Num(1), Absent)>>),
     MsgTrades(<<Trade("SOL", "sell", Absent, Absent, Num(2))>>),
     MsgTrades(<<Trade("ETH", "buy", Absent, Absent, Num(3)),
                 Trade("ETH", "B", BadNum, Num(1), Absent)>>)}
FlowWaits == {MIN_WINDOW, MAX_WINDOW}

NextFlow ==
    \/ OrderFlowStart /\ wsThreads = <<>>
    \/ OrderFlowSubscribe
    \/ OrderFlowGetSignals
    \/ \E i \in 1..MaxThreads :
          \/ WsCreateLoop(i)
          \/ WsRunForever(i)
          \/ WsRunPending(i)
          \/ WsTask(i, FlowFrames, LifeConns)
          \/ \E n \in FlowWaits : WsWait(i, n)

SpecFlow == InitOf({"orderflow"}) /\ [][NextFlow]_vars

(* The order-flow signals: trades above, at and below the large-trade       *)
(* thresholds, and one of negative notional, arrive a window apart.         *)

SigFrames ==
    {MsgTrades(<<Trade("ETH", "B", Absent, Absent, Num(60000)),
                 Trade("ETH", "S", Absent, Absent, Num(80000)),
                 Trade("ETH", "sell", Num(7), Num(7), Absent)>>),
     MsgTrades(<<Trade("ETH", "buy", Num(50000), Num(1), Absent),
                 Trade("SOL", "B", Absent, Absent, Num(24999))>>),
     MsgTrades(<<Trade("ETH", "B", Absent, Absent, Num(3)),
                 Trade("ETH", "S", Absent, Absent, Num(-1))>>)}

NextSig ==
    \/ OrderFlowStart /\ wsThreads = <<>>
    \/ OrderFlowSubscribe
    \/ OrderFlowGetSignals
    \/ \E i \in 1..MaxThreads :
          \/ WsCreateLoop(i)
          \/ WsRunForever(i)
          \/ WsRunPending(i)
          \/ WsTask(i, SigFrames, LifeConns)
          \/ WsWait(i, MIN_WINDOW)

SpecSig == InitOf({"orderflow"}) /\ [][NextSig]_vars

(* The rolling histories: the HLP or the funding detector is started and    *)
(* stopped any number of times while its polls succeed or fail and the      *)
(* clock moves by an interval or by a whole history window.                 *)

HistStateResponses == {RFail, ROk(<<Entry("ETH", Num(1))>>), ROk(<<Entry("ETH", Num(3))>>)}
HistMidsResponses == {MFail, MFlat(<<Price("ETH", Num(2))>>)}
HistFundingResponses ==
    {FFail,
     FOk(<<"ETH">>, <<Ctx(Num(1), Num(10))>>),
     FOk(<<"ETH", "SOL", "ETH">>, <<Ctx(Num(2), Num(10)), Ctx(Num(1), Absent), Ctx(Num(3), Num(12))>>)}

NextHist ==
    \/ HlpStart
    \/ HlpStop
    \/ HlpPollWorker(HistStateResponses, HistMidsResponses, HlpSleeps)
    \/ FundingStart
    \/ FundingStop
    \/ FundingPollWorker(HistFundingResponses, FundingSleeps)

SpecHist == InitOf({"hlp", "funding"}) /\ [][NextHist]_vars

(* The whale tracker's data: the caller starts the tracker once, adds       *)
(* addresses and reads signals while the two workers run.                   *)

NextWhale ==
    \/ WhaleStart /\ workers["whales"] = <<>>
    \/ WhaleGetSignals
    \/ GetCompositeSignals
    \/ WhalePollWorker(WhaleResponses)
    \/ WhaleBootWorker(LbResponses)

SpecWhale == Init /\ [][NextWhale]_vars

(* The change log over many cycles: one whale, whose positions in seven     *)
(* instruments are all open or all closed at each poll.                     *)

LogPolls == 30   \* responses that carry data, in a behaviour of the change log
LogCoins == <<"ETH", "SOL", "BTC", "XRP", "DOGE", "AVAX", "LINK">>
LogBody == [j \in 1..Len(LogCoins) |-> Entry(LogCoins[j], Num(1))]
LogResponses == {RFail, ROk(LogBody), ROk(<<>>)}
LogLbResponses == {LbFail, LbList(<<StrItem("A")>>)}

NextLog ==
    \/ WhaleStart /\ workers["whales"] = <<>>
    \/ WhaleGetSignals
    \/ WhalePollWorker(LogResponses)
    \/ WhaleBootWorker(LogLbResponses)

SpecLog == InitWith({"whales"}, LogPolls) /\ [][NextLog]_vars

(* The shares of long and short whales: three whales of the leaderboard,    *)
(* each long, short or flat in ETH.                                         *)

PctPolls == 3   \* responses that carry data, in a behaviour of the shares
PctResponses ==
    {RFail, ROk(<<Entry("ETH", Num(1))>>), ROk(<<Entry("ETH", Num(-1))>>), ROk(<<>>)}
PctLbResponses == {LbFail, LbList(<<StrItem("A"), StrItem("B"), StrItem("C")>>)}

NextPct ==
    \/ WhaleStart /\ workers["whales"] = <<>>
    \/ WhaleGetSignals
    \/ WhalePollWorker(PctResponses)
    \/ WhaleBootWorker(PctLbResponses)

SpecPct == InitWith({"whales"}, PctPolls) /\ [][NextPct]_vars

(* The z-scores: one start of the HLP or the funding detector, and enough   *)
(* polls for a history of MIN_SAMPLES samples that rise and fall.           *)

ZPolls == 5   \* responses that carry data, in a behaviour of the z-scores
ZLevels == 1..3
ZStateResponses == {RFail} \cup {ROk(<<Entry("ETH", Num(v))>>) : v \in ZLevels}
ZMidsResponses == {MFlat(<<Price("ETH", Num(2))>>)}
ZFundingResponses == {FFail} \cup {FOk(<<"ETH">>, <<Ctx(Num(v), Num(10))>>) : v \in ZLevels}

NextZ ==
    \/ HlpStart /\ workers["hlp"] = <<>>
    \/ HlpPollWorker(ZStateResponses, ZMidsResponses, {POLL_INTERVAL_HLP})
    \/ FundingStart /\ workers["funding"] = <<>>
    \/ FundingPollWorker(ZFundingResponses, {POLL_INTERVAL_FUNDING})

SpecZ == InitWith({"hlp", "funding"}, ZPolls) /\ [][NextZ]_vars

(* The recommendation bands: the aggregator builds composites of every      *)
(* score.                                                                   *)

NextBands == \E x \in Scores : Recommend(x)

SpecBands == InitOf({"aggregator"}) /\ [][NextBands]_vars

(* Stopping a poller: the caller starts the detector once, stops it any     *)
(* number of times and reads its signals.  Every thread that can take a     *)
(* step takes one in the end: a request returns or times out, a sleep ends, *)
(* a lock is released and then obtained, join(timeout=5) returns.           *)

NextHalt ==
    \/ WhaleStart /\ workers["whales"] = <<>>
    \/ HlpStart /\ workers["hlp"] = <<>>
    \/ FundingStart /\ workers["funding"] = <<>>
    \/ WhaleStop
    \/ HlpStop
    \/ FundingStop
    \/ WhalePollWorker(LifeWhaleResponses)
    \/ WhaleBootWorker(LifeLbResponses)
    \/ HlpPollWorker(LifeWhaleResponses, LifeMidsResponses, {POLL_INTERVAL_HLP})
    \/ FundingPollWorker(LifeFundingResponses, {POLL_INTERVAL_FUNDING})
    \/ WhaleGetSignals
    \/ HlpGetSignals
    \/ FundingGetSignals

SpecHalt == InitOf(Pollers) /\ [][NextHalt]_vars

FairHalt ==
    /\ SF_vars(WhalePollWorker(LifeWhaleResponses))
    /\ SF_vars(HlpPollWorker(LifeWhaleResponses, LifeMidsResponses, {POLL_INTERVAL_HLP}))
    /\ SF_vars(FundingPollWorker(LifeFundingResponses, {POLL_INTERVAL_FUNDING}))
    /\ \A d \in Pollers : WF_vars(PollerJoinReturn(d))
    /\ WF_vars(WhaleGetSignalsReturn)
    /\ WF_vars(HlpGetSignalsReturn)
    /\ WF_vars(FundingGetSignalsReturn)

SpecHaltFair == SpecHalt /\ FairHalt

(* The REST requests of the three pollers and the bootstrap thread, each    *)
(* through the client of its detector.                                      *)

NextRest ==
    \/ \E w \in RestWorkers :
          \/ RestCall(w)
          \/ LimAcquire(w)
          \/ LimCheck(w)
          \/ LimWake(w)
          \/ LimStamp(w)
          \/ \E r \in OkOutcomes : RestReturn(w, r)
    \/ RestTick
    \/ RestSleepPasses

SpecRest == InitOf({"rest"}) /\ [][NextRest]_vars

(* The whale list: the caller adds addresses, starts and stops the tracker   *)
(* any number of times, while bootstrap threads and pollers run.            *)

AddPolls == 1   \* responses that carry data, in a behaviour of the whale list

NextAdd ==
    \/ add_whale
    \/ WhaleStart
    \/ WhaleStop
    \/ WhalePollWorker(LifeWhaleResponses)
    \/ WhaleBootWorker(LifeLbResponses)

SpecAdd == InitWith({"whales"}, AddPolls) /\ [][NextAdd]_vars

(* The handler's exceptions: connections always succeed and never close by   *)
(* themselves, so that a connection ends only when the handler raises on a  *)
(* frame; the caller starts the detector once and stops it.                 *)

CrashFrames ==
    {MsgBadData,
     MsgTrades(<<Trade("ETH", "B", BadNum, Num(1), Absent)>>),
     MsgTrades(<<Trade("ETH", "B", Num(1), Num(1), Absent)>>)}

NextCrash ==
    \/ OrderFlowStart /\ wsThreads = <<>>
    \/ OrderFlowSubscribe
    \/ OrderFlowStop
    \/ \E i \in 1..MaxThreads :
          \/ WsCreateLoop(i)
          \/ WsRunForever(i)
          \/ WsLoopStops(i)
          \/ WsFinally(i)
          \/ WsRunPending(i)
          \/ WsTaskStart(i)
          \/ WsConnect(i, TRUE, MaxConns)
          \/ WsReplay(i, TRUE)
          \/ \E m \in CrashFrames : WsRecv(i, m)
          \/ WsBackoffOver(i)
          \/ WsHandlerAcquire(i)
          \/ WsHandlerAppend(i)
          \/ WsTrimAcquire(i)
          \/ WsTrim(i)

SpecCrash == InitOf({"orderflow"}) /\ [][NextCrash]_vars

(* The locks: every worker of every object runs, each detector started once, *)
(* while the caller stops the object and reads signals, and the REST calls   *)
(* of the workers pass their rate limiters.                                  *)

NextLocks ==
    \/ NextHalt
    \/ OrderFlowStart /\ wsThreads = <<>>
    \/ OrderFlowSubscribe
    \/ OrderFlowStop
    \/ OrderFlowGetSignals
    \/ WsThread(LifeFrames, LifeConns)
    \/ NextRest

SpecLocks == InitOf(Targets \cup {"rest"}) /\ [][NextLocks]_vars

\* every step of a thread is taken in the end, and time passes
FairRest ==
    /\ \A w \in RestWorkers :
          /\ WF_vars(LimAcquire(w))
          /\ WF_vars(LimCheck(w))
          /\ WF_vars(LimWake(w))
          /\ WF_vars(LimStamp(w))
    /\ WF_vars(RestSleepPasses)

SpecRestFair == SpecRest /\ FairRest

\* one thread's calls of _post, with every outcome an attempt can have
PostWorker == "funding"

NextPost ==
    \/ RestCall(PostWorker)
    \/ LimAcquire(PostWorker)
    \/ LimCheck(PostWorker)
    \/ LimWake(PostWorker)
    \/ LimStamp(PostWorker)
    \/ \E r \in PostOutcomes : RestReturn(PostWorker, r) \/ RestRetry(PostWorker, r)
    \/ RestBackoffOver(PostWorker)
    \/ RestTick
    \/ RestSleepPasses

SpecPost == InitOf({"rest"}) /\ [][NextPost]_vars

----------------------------------------------------------------------------
(* Properties *)

\* C1: get_composite_signals() returns, without raising, one CompositeSignal
\* per tracked instrument in tracked-instrument order, whatever the detectors
\* have received.
C1_CompositeTotal ==
    callerPc.pc = "cs_crit" =>
        LET r == get_composite_signals(callerPc.op) IN
        /\ ~r.raised
        /\ Len(r.composites) = Len(TRACKED_COINS)
        /\ \A j \in 1..Len(TRACKED_COINS) : r.composites[j].coin = TRACKED_COINS[j]

\* a stop() call comes to its end in this step
StopCallEnds ==
    \/ callerPc.pc \in {"join", "ws_stop_loop"} /\ callerPc' = Idle
    \/ \E d \in Pollers : PollerStop(d) /\ callerPc' = Idle

StopFlagSet(d) == IF d = "orderflow" THEN wsStop ELSE stopFlag[d]

\* C2: a second stop(), issued after a first stop() has returned, completes
\* without an exception and leaves the stop flag set as the first one did.
C2_StopIdempotent ==
    [][(StopCallEnds /\ lastOp[target] = "stop" /\ callErr = None)
          => (callErr' = None /\ StopFlagSet(target)')]_vars

OneWorkerAlive ==
    /\ \A d \in Pollers : Cardinality(Alive(workers[d])) <= 1
    /\ Cardinality(Alive(wsThreads)) <= 1

\* C3: at most one poll / receive worker of an object is alive, and a start()
\* made while the worker is alive creates no poll, bootstrap or receive thread.
C3_SingleWorker ==
    [][/\ OneWorkerAlive'
       /\ \A d \in Pollers : (PollerStart(d) /\ ThreadAlive(d)) => UNCHANGED <<workers, boot>>
       /\ (OrderFlowStart /\ WsAlive) => UNCHANGED wsThreads]_vars

\* start() returned early: the flag of the stop() before it is still set and
\* the worker that stop() did not wait out is alive
C3_StartWhileAlive ==
    \E d \in Pollers :
        /\ callerPc = Idle
        /\ lastOp[d] = "start"
        /\ stopFlag[d]
        /\ ThreadAlive(d)

\* C4: once stop() has returned, no receive thread is left inside run_forever
\* with its task finished and no loop.stop scheduled -- a thread in that state
\* never terminates.
C4_StopEndsThread ==
    (callerPc = Idle /\ lastOp["orderflow"] = "stop" /\ callErr = None /\ wsStop) =>
        \A i \in 1..Len(wsThreads) :
            ~(/\ wsThreads[i].pc = "running"
              /\ wsThreads[i].task = "done"
              /\ ~wsThreads[i].stopReq
              /\ wsThreads[i].pending = <<>>)

\* where a poll worker is inside a REST request (limiter and back-off sleeps
\* included) or its poll-interval sleep, and where the receive task is inside a
\* connect, a send, a receive or the reconnect back-off
PollIoPcs == {"fetch", "fetch_vault", "fetch_state", "fetch_mids", "sleep"}
WsIoPcs == {"connecting", "replay", "recv", "backoff"}

\* C5: no worker holds its detector's state lock while it is in network I/O or
\* in a sleep.
C5_NoLockDuringIO ==
    /\ \A d \in Pollers : \A i \in 1..Len(workers[d]) :
           workers[d][i].pc \in PollIoPcs => lock[d] # i
    /\ \A i \in 1..Len(wsThreads) :
           wsThreads[i].task \in WsIoPcs => lock["orderflow"] # i

\* the caller is inside get_signals() while the worker, past its first update,
\* is inside a request
C5_ReadDuringRequest ==
    /\ callerPc.pc = "gs_crit"
    /\ callerPc.det = "hlp"
    /\ hlpLatest # <<>>
    /\ \E i \in 1..Len(workers["hlp"]) : workers["hlp"][i].pc = "fetch_state"

SizeIn(m, c) == DictGet(m, c, 0)

\* the step of WhaleDiff(i) appends exactly the events of the sizes that differ
DiffExact(i) ==
    LET w == workers["whales"][i]
        addr == w.addrs[w.idx]
        prev == Baseline(addr)
        coins == Keys(prev) \cup Keys(w.pos)
        new == SubSeq(recentChanges', Len(recentChanges) + 1, Len(recentChanges'))
    IN /\ Len(recentChanges') >= Len(recentChanges)
       /\ SubSeq(recentChanges', 1, Len(recentChanges)) = recentChanges
       /\ \A c \in coins :
              LET evs == {k \in 1..Len(new) : new[k].coin = c} IN
              IF SizeIn(w.pos, c) # SizeIn(prev, c)
              THEN /\ Cardinality(evs) = 1
                   /\ \A k \in evs :
                          new[k] = WhaleChange(addr, c, SizeIn(prev, c),
                                               SizeIn(w.pos, c), w.now)
              ELSE evs = {}
       /\ \A k \in 1..Len(new) : new[k].coin \in coins
       /\ addr \in DOMAIN lastPositions'
       /\ lastPositions'[addr] = w.pos

\* C6: a successful poll of an address appends exactly one WhaleChange for each
\* instrument whose polled size (0 when absent) differs from the baseline size
\* (0 when absent), none for any other, and makes the polled mapping the baseline.
C6_WhaleDiffExact ==
    [][\A i \in 1..MaxThreads :
          (WhaleDiff(i) /\ Hashable(workers["whales"][i].addrs[workers["whales"][i].idx]))
              => DiffExact(i)]_vars

\* a position that disappeared is in the log with new_size 0
C6_Disappeared ==
    \E k \in 1..Len(recentChanges) :
        LET e == recentChanges[k] IN
        /\ e.new_size = 0
        /\ e.prev_size # 0
        /\ e.address \in DOMAIN lastPositions
        /\ e.coin \notin Keys(lastPositions[e.address])

\* C7: a failed clearinghouse-state fetch leaves the baselines and the change
\* log as they are, and the cycle goes on with the next address.
C7_FailedFetchSkips ==
    [][\A i \in 1..MaxThreads :
          WhaleFetchReturn(i, RFail) =>
              /\ UNCHANGED <<lastPositions, recentChanges>>
              /\ LET w == workers["whales"][i]
                     w2 == workers'["whales"][i]
                 IN IF w.idx < Len(w.addrs)
                    THEN w2.pc = "fetch" /\ w2.idx = w.idx + 1 /\ w2.addrs = w.addrs
                    ELSE w2.pc = "sleep"]_vars

\* the fetch for the first address failed and the second address is being polled
C7_SecondAfterFailure ==
    \E i \in 1..Len(workers["whales"]) :
        LET w == workers["whales"][i] IN
        /\ w.pc = "fetch"
        /\ w.idx = 2
        /\ w.addrs[1] \notin DOMAIN lastPositions
        /\ recentChanges = <<>>

\* C8: a poller outlives every malformed response: while its stop flag is clear,
\* the poll worker it started last is alive.
C8_MalformedNotFatal ==
    \A d \in Pollers :
        (Len(workers[d]) > 0 /\ ~stopFlag[d]) => Last(workers[d]).pc # "dead"

\* a REST fetch of an HLP or funding cycle fails in this step
FetchFails(i) ==
    \/ HlpFetchVault(i, FALSE)
    \/ HlpFetchState(i, RFail)
    \/ HlpFetchMids(i, MFail)
    \/ FundingFetchReturn(i, FFail)

\* C9: a failed fetch of an HLP or funding cycle changes no history, no stored
\* open interest and no latest signal, and the worker goes to the sleep that
\* precedes its next cycle.
C9_FailedCycleNoChange ==
    [][\A i \in 1..MaxThreads :
          FetchFails(i) =>
              /\ UNCHANGED <<hlpData, fundData>>
              /\ workers'[target][i].pc = "sleep"]_vars

\* the second cycle of the funding worker failed: the signal of the first is
\* still the latest one
C9_SecondCycleFailed ==
    /\ target = "funding"
    /\ polls = 1
    /\ clock = POLL_INTERVAL_FUNDING
    /\ fundLatest # <<>>
    /\ \E i \in 1..Len(workers["funding"]) : workers["funding"][i].pc = "sleep"

\* C10: any two REST requests of the pollers leave the rate limiter at least
\* 1/R apart, whichever workers issue them.
C10_RequestsSpaced ==
    \A j \in 1..Len(passed) : \A k \in 1..Len(passed) :
        j < k => passed[k].at - passed[j].at >= MIN_INTERVAL_MS

\* the threads inside the with self._lock: block of one client's RateLimiter.wait
InWait(c) ==
    {w \in RestWorkers : ClientOf(w) = c /\ rq[w].pc \in {"lim_crit", "lim_sleep", "lim_stamp"}}

\* C11: of the threads calling one REST client at most one is inside the
\* critical section of RateLimiter.wait, any two returns from wait() on one
\* client (each timed by the stamp it leaves in _last_ts) are at least
\* min_interval apart, and every caller that entered wait() returns from it.
C11_LimiterSerializes ==
    /\ [](\A c \in Clients : Cardinality(InWait(c)) <= 1)
    /\ [](\A j, k \in 1..Len(passed) :
            (j < k /\ ClientOf(passed[j].by) = ClientOf(passed[k].by))
                => passed[k].at - passed[j].at >= MIN_INTERVAL_MS)
    /\ \A w \in RestWorkers : (rq[w].pc = "lim_acquire") ~> (rq[w].pc = "send")

\* two threads have passed one client's limiter, the second after sleeping
\* out the rest of the interval inside the critical section
C11_TwoThreadsOneClient ==
    \E j, k \in 1..Len(passed) :
        /\ j < k
        /\ passed[j].by # passed[k].by
        /\ ClientOf(passed[j].by) = ClientOf(passed[k].by)
        /\ passed[k].at - passed[j].at = MIN_INTERVAL_MS

\* an HTTP error status that is neither 5xx nor 429
OtherHttpError(r) == r.code >= 400 /\ r.code < 500 /\ r.code # 429

\* C12: an attempt of _post answered with an HTTP error status other than 5xx
\* and 429 is never followed by a retry: the call ends with that attempt.
C12_OnlyRetryableRetried ==
    [][\A w \in RestWorkers : \A r \in PostOutcomes :
          OtherHttpError(r) => ~RestRetry(w, r)]_vars

\* C13: a call of _post makes at most 3 attempts, has slept 0.5 s after the
\* first failed attempt and 1.0 s after the second and nothing after the third,
\* and a failed third attempt ends it at once with a RuntimeError that carries
\* the exception of that attempt.
C13_ThreeAttempts ==
    /\ [](\A w \in RestWorkers :
            /\ rq[w].attempt < RETRIES
            /\ rq[w].pc \in {"send", "done"} =>
                  rq[w].slept = SubSeq(<<500, 1000>>, 1, rq[w].attempt)
            /\ (rq[w].pc = "done" /\ rq[w].res.raised) => rq[w].attempt = RETRIES - 1)
    /\ [][\A w \in RestWorkers : \A r \in PostOutcomes :
            (rq[w].pc = "send" /\ rq[w].attempt = RETRIES - 1 /\ AttemptExc(r) # NoExc
                /\ (RestReturn(w, r) \/ RestRetry(w, r)))
            => /\ rq'[w].pc = "done"
               /\ rq'[w].res = RuntimeError(AttemptExc(r))
               /\ rq'[w].slept = <<500, 1000>>
               /\ msClock' = msClock]_vars

\* a call has ended by raising after three attempts, the last one answered
\* with a body that is not JSON
C13_ThirdAttemptFailed ==
    \E w \in RestWorkers :
        /\ rq[w].pc = "done"
        /\ rq[w].res = RuntimeError(<<"JSONDecodeError", 200>>)
        /\ rq[w].slept = <<500, 1000>>

\* the subscriptions written to connection c, in the order of writing
CoinsSentOn(sent, c) ==
    LET on == SelectSeq(sent, LAMBDA e : e[1] = c) IN [j \in 1..Len(on) |-> on[j][2]]

\* a is b with some elements left out
RECURSIVE IsSubseq(_, _)
IsSubseq(a, b) ==
    IF a = <<>> THEN TRUE
    ELSE IF b = <<>> THEN FALSE
    ELSE IF Head(a) = Head(b) THEN IsSubseq(Tail(a), Tail(b))
    ELSE IsSubseq(a, Tail(b))

\* the task is past the replay of its connection: it waits for a frame or
\* runs the handler on one
Receiving == {"recv", "om_acquire", "om_crit", "trim_acquire", "trim_crit"}

\* C14: when the replay of a connection ends, every subscription recorded by
\* then has been written to that connection in the order of recording; no
\* frame of a connection is taken before that (the subscriptions still to be
\* sent are the ones subscribe() has scheduled and the loop has not run yet);
\* and the recorded subscriptions only ever grow at the end.
C14_ReplayOnConnect ==
    /\ [][\A i \in 1..Len(wsThreads) :
            (WsReplay(i, TRUE) /\ wsThreads'[i].task = "recv")
                => IsSubseq(wsSubs, CoinsSentOn(wsSent', wsThreads[i].conn))]_vars
    /\ [](\A i \in 1..Len(wsThreads) :
            (wsThreads[i].pc = "running" /\ wsThreads[i].task \in Receiving)
                => IsSubseq(SubSeq(wsSubs, 1, Len(wsSubs) - Len(wsThreads[i].pending)),
                            CoinsSentOn(wsSent, wsThreads[i].conn)))
    /\ [][Len(wsSubs') >= Len(wsSubs) /\ SubSeq(wsSubs', 1, Len(wsSubs)) = wsSubs]_vars

\* the second connection has replayed the subscriptions and a frame of it is
\* in the handler
C14_Reconnected ==
    \E i \in 1..Len(wsThreads) :
        /\ wsThreads[i].conn = 2
        /\ wsThreads[i].task = "om_crit"
        /\ CoinsSentOn(wsSent, 1) = wsSubs
        /\ CoinsSentOn(wsSent, 2) = wsSubs
        /\ Len(wsSubs) = Len(TRACKED_COINS)

\* the elements of a sequence
Elems(q) == {q[j] : j \in 1..Len(q)}

\* C15: subscribe() records the subscription and writes nothing itself; with a
\* connection open it schedules the send on the loop, and the loop writes a
\* scheduled subscription to the connection that is open then; with none open
\* nothing is written, and once a connection is receiving every recorded
\* subscription has been written to it or is still scheduled.
C15_SubscribeSendsOrQueues ==
    /\ [][OrderFlowSubscribe =>
            /\ wsSubs' = Append(wsSubs, TRACKED_COINS[callerPc.op])
            /\ wsSent' = wsSent
            /\ \A i \in 1..Len(wsThreads) :
                  wsThreads[i].conn # 0 =>
                      wsThreads'[i].pending =
                          Append(wsThreads[i].pending, TRACKED_COINS[callerPc.op])]_vars
    /\ [][\A i \in 1..Len(wsThreads) :
            WsRunPending(i) =>
                IF wsThreads[i].conn # 0
                THEN wsSent' = Append(wsSent, <<wsThreads[i].conn, Head(wsThreads[i].pending)>>)
                ELSE wsSent' = wsSent]_vars
    /\ [](\A i \in 1..Len(wsThreads) :
            (wsThreads[i].pc = "running" /\ wsThreads[i].task \in Receiving)
                => Elems(wsSubs) \subseteq
                      Elems(CoinsSentOn(wsSent, wsThreads[i].conn))
                          \cup Elems(wsThreads[i].pending))

\* a subscription passed while the first connection was receiving has been
\* written to it by the loop, with no reconnect and no replay in between
C15_SentWhileConnected ==
    \E i \in 1..Len(wsThreads) :
        /\ callerPc.pc = "of_sub"
        /\ Len(wsSubs) = Len(TRACKED_COINS) + 1
        /\ conns = 1
        /\ wsThreads[i].conn = 1
        /\ wsThreads[i].task = "recv"
        /\ wsThreads[i].pending = <<>>
        /\ CoinsSentOn(wsSent, 1) = wsSubs

\* C16: while stop is not signalled, a connect attempt that fails and a
\* connection that ends, with an error or cleanly, are each followed by the
\* sleep of reconnect_delay before the task connects again.
C16_ReconnectAfterDelay ==
    [][\A i \in 1..Len(wsThreads) :
          (/\ ~wsStop
           /\ \/ WsConnect(i, FALSE, MaxConns)
              \/ \E clean \in BOOLEAN : WsConnClosed(i, clean))
          => wsThreads'[i].task = "backoff"]_vars

\* C17: a frame that json.loads rejects changes nothing but the record that it
\* was dropped: the handler is not entered, the buffers and the connection are
\* as before; the task goes on receiving on the same connection, where a
\* later trades frame is decoded and handed to the handler (each frame is
\* decoded and handled before the next one is taken).
C17_BadFrameDropped ==
    /\ [][\A i \in 1..Len(wsThreads) :
            WsRecv(i, FrameBad) =>
                /\ wsThreads'[i] = [wsThreads[i] EXCEPT !.dropped = TRUE]
                /\ UNCHANGED <<trades, wsSock, wsSent, conns, lock>>]_vars
    /\ [](\A i \in 1..Len(wsThreads) :
            (wsThreads[i].pc = "running" /\ wsThreads[i].dropped)
                => /\ wsThreads[i].conn # 0
                   /\ wsThreads[i].task \in Receiving)
    /\ [][\A i \in 1..Len(wsThreads) : \A m \in WsFrames :
            (WsRecv(i, m) /\ wsThreads[i].dropped /\ m.kind = "trades")
                => /\ wsThreads'[i].task = "om_acquire"
                   /\ wsThreads'[i].msg = m.trades
                   /\ wsThreads'[i].conn = wsThreads[i].conn]_vars

\* a trades frame that arrived after an undecodable one on the same
\* connection is in the handler
C17_FrameAfterBadOne ==
    \E i \in 1..Len(wsThreads) :
        /\ wsThreads[i].dropped
        /\ wsThreads[i].task = "om_crit"
        /\ wsThreads[i].msg # <<>>

\* no event of any tracked instrument's buffer is older than the largest window at t
Fresh(buf, t) ==
    \A c \in CoinSet : \A j \in 1..Len(buf[c]) : buf[c][j].ts >= t - MAX_WINDOW

\* the handler call of thread i ends in this step: _trim returns, or the
\* loop over the trades raises
HandlerEnds(i) ==
    /\ wsThreads[i].task \in {"om_crit", "trim_crit"}
    /\ wsThreads'[i].task \in {"recv", "backoff"}

\* C18: when _trim(t) returns, and when an _on_message call that took a trades
\* message at time t ends, every event of every tracked instrument's buffer
\* has a timestamp of t - max(ORDERFLOW_WINDOWS) or later.
C18_BufferWithinWindow ==
    [][\A i \in 1..Len(wsThreads) :
          ((WsTrim(i) \/ WsHandlerAppend(i)) /\ HandlerEnds(i))
              => Fresh(trades', wsThreads[i].now)]_vars

\* the timestamps of a history never decrease from one sample to the next
Ascending(hist) == \A j \in 1..(Len(hist) - 1) : hist[j].t <= hist[j + 1].t

\* C19: every instrument's rolling history, in the funding and in the HLP
\* detector, is non-decreasing in timestamp in every reachable state.
C19_HistoryAscending ==
    \A c \in CoinSet : Ascending(hlpHistory[c]) /\ Ascending(fundHistory[c])

\* a history holds samples of two polls made by two different poll threads
C19_SamplesAcrossRestart ==
    \E c \in CoinSet : \E d \in {"hlp", "funding"} :
        LET hist == IF d = "hlp" THEN hlpHistory[c] ELSE fundHistory[c] IN
        /\ target = d
        /\ Len(workers[d]) = MaxThreads
        /\ Len(hist) >= 2
        /\ hist[1].t < hist[Len(hist)].t

\* every sample of a history is within 7 days of now
Within(hist, now) == \A j \in 1..Len(hist) : hist[j].t >= now - HISTORY_WINDOW

\* C20: a poll that appends a sample at time now leaves in that history only
\* samples of now - 7 days or later, the sample of now among them, so samples
\* that aged out during an outage go with the first append after it; a failed
\* poll leaves every history as it was.
C20_HistoryWithinWindow ==
    /\ [][\A i \in 1..MaxThreads :
            HlpUpdate(i) =>
                \A c \in CoinSet :
                    /\ Within(hlpHistory'[c], workers["hlp"][i].now)
                    /\ hlpHistory'[c] # <<>>
                    /\ Last(hlpHistory'[c]).t = workers["hlp"][i].now]_vars
    /\ [][\A i \in 1..MaxThreads :
            FundingUpdate(i) =>
                LET w == workers["funding"][i]
                    coin == w.names[w.idx]
                IN /\ Within(fundHistory'[coin], w.now)
                   /\ fundHistory'[coin] # <<>>
                   /\ Last(fundHistory'[coin]).t = w.now
                   /\ \A c \in CoinSet \ {coin} : fundHistory'[c] = fundHistory[c]]_vars
    /\ [][\A i \in 1..MaxThreads :
            FetchFails(i) => UNCHANGED <<hlpHistory, fundHistory>>]_vars

\* after an outage longer than the window the first successful poll has
\* dropped the sample taken before it
C20_AgedOutRemoved ==
    \E c \in CoinSet : \E d \in {"hlp", "funding"} :
        LET hist == IF d = "hlp" THEN hlpHistory[c] ELSE fundHistory[c] IN
        /\ target = d
        /\ polls = MaxPolls
        /\ Len(hist) = 1
        /\ hist[1].t > HISTORY_WINDOW

\* C21: in every state the change log holds at most 200 events, and they are
\* the last min(200, n) of the n events created so far, in creation order.
C21_LogIsLatest200 ==
    LET n == Len(created)
        m == Len(recentChanges)
    IN /\ m <= 200
       /\ m = Min(n, 200)
       /\ \A k \in 1..m : recentChanges[k] = created[n - m + k]

\* more than 200 events were created and the log was cut to 200
C21_LogOverflowed ==
    /\ Len(created) > 200
    /\ Len(recentChanges) = 200
    /\ recentChanges[1] # created[1]

\* C22: every signal of one get_signals() call carries the last min(20, n)
\* events of the log of n events, in log order, whatever its instrument.
C22_RecentChangesTail ==
    (callerPc.pc = "gs_crit" /\ callerPc.det = "whales" /\ ~WhaleGetSignalsRaises) =>
        LET signals == WhaleGetSignalsValue(callerPc.op)
            n == Len(recentChanges)
            m == Min(20, n)
        IN /\ Len(signals) = Len(TRACKED_COINS)
           /\ \A j \in 1..Len(signals) :
                  /\ signals[j].coin = TRACKED_COINS[j]
                  /\ Len(signals[j].recent_changes) = m
                  /\ \A k \in 1..m :
                         signals[j].recent_changes[k] = recentChanges[n - m + k]

\* get_signals() reads a log of more than 20 events of several instruments
C22_LongLogRead ==
    /\ callerPc.pc = "gs_crit"
    /\ callerPc.det = "whales"
    /\ Len(recentChanges) > 20
    /\ \E k \in 1..Len(recentChanges) : recentChanges[k].coin \notin CoinSet
    /\ \E k \in 1..Len(recentChanges) : recentChanges[k].coin = "SOL"

\* C23: every composite score has exactly one recommendation: STRONG_LONG from
\* 0.6 up, LEAN_LONG from 0.2 up to but not 0.6, NEUTRAL strictly between -0.2
\* and 0.2, LEAN_SHORT above -0.6 up to and with -0.2, STRONG_SHORT up to and
\* with -0.6.
C23_OneBandPerScore ==
    LET x == 10 * compScore
        band == [STRONG_LONG |-> x >= 6 * FP,
                 LEAN_LONG |-> 2 * FP <= x /\ x < 6 * FP,
                 NEUTRAL |-> -2 * FP < x /\ x < 2 * FP,
                 LEAN_SHORT |-> -6 * FP < x /\ x <= -2 * FP,
                 STRONG_SHORT |-> x <= -6 * FP]
    IN /\ compRec \in DOMAIN band
       /\ \A r \in DOMAIN band : band[r] <=> compRec = r

\* a composite whose score is exactly -0.2 is LEAN_SHORT
C23_AtBandEdge ==
    /\ 10 * compScore = -2 * FP
    /\ compRec = "LEAN_SHORT"

\* no tracked whale has a last-known position in the instrument
NoWhalePosition(coin) == \A j \in 1..Len(whales) : PositionOf(whales[j], coin) = 0

\* C24: whenever get_composite_signals() is called, also before any detector
\* has data, every tracked instrument gets a score, which is the sum of its four
\* components times their weights; a detector without a signal for the
\* instrument contributes the component 0.
C24_ScoreIsWeightedSum ==
    callerPc.pc = "cs_crit" =>
        LET r == get_composite_signals(callerPc.op) IN
        /\ ~r.raised
        /\ \A j \in 1..Len(TRACKED_COINS) :
               LET coin == TRACKED_COINS[j]
                   c == r.composites[j].components
               IN /\ 100 * r.composites[j].score
                         = 100 * Quot(c.orderflow * 30 + c.whales * 25
                                      + c.hlp * 25 + c.funding * 20, 100)
                  /\ trades[coin] = <<>> => c.orderflow = 0
                  /\ NoWhalePosition(coin) => c.whales = 0
                  /\ coin \notin Keys(hlpLatest) => c.hlp = 0
                  /\ coin \notin Keys(fundLatest) => c.funding = 0

\* the in-window events of one side
InWindow(events, side, cutoff) ==
    SelectSeq(events, LAMBDA e : e.ts >= cutoff /\ e.side = side)

Usd(events) == [j \in 1..Len(events) |-> events[j].usd]

\* the signals get_signals() is returning
FlowSignalsRead ==
    IF callerPc.pc = "gs_crit" /\ callerPc.det = "orderflow"
    THEN OrderFlowGetSignalsValue(callerPc.op)
    ELSE <<>>

\* C25: every imbalance get_signals() reports is within [-1, 1], and it is 0
\* exactly when the buy and sell volume of its window add up to 0.
C25_ImbalanceBounded ==
    \A j \in 1..Len(FlowSignalsRead) :
        LET sg == FlowSignalsRead[j]
            cutoff == callerPc.op - sg.window
            buy_vol == Sum(Usd(InWindow(trades[sg.coin], "B", cutoff)))
            sell_vol == Sum(Usd(InWindow(trades[sg.coin], "S", cutoff)))
        IN /\ Abs(sg.imbalance) <= FP
           /\ sg.imbalance = 0 <=> buy_vol + sell_vol = 0

\* C29: the large-trade counters of a signal count the in-window BUY and SELL
\* events of at least the instrument's threshold, net_large_flow is the usd of
\* those BUY events less that of those SELL events, and smaller events count
\* in the volumes only.
C29_LargeTradesExact ==
    \A j \in 1..Len(FlowSignalsRead) :
        LET sg == FlowSignalsRead[j]
            cutoff == callerPc.op - sg.window
            buys == InWindow(trades[sg.coin], "B", cutoff)
            sells == InWindow(trades[sg.coin], "S", cutoff)
            Large(e) == e.usd >= LARGE_TRADE_THRESHOLD[sg.coin]
            denom == Sum(Usd(buys)) + Sum(Usd(sells))
        IN /\ sg.large_buy_count = Len(SelectSeq(buys, Large))
           /\ sg.large_sell_count = Len(SelectSeq(sells, Large))
           /\ sg.net_large_flow =
                  Sum(Usd(SelectSeq(buys, Large))) - Sum(Usd(SelectSeq(sells, Large)))
           /\ denom > 0 =>
                  sg.imbalance = Quot((Sum(Usd(buys)) - Sum(Usd(sells))) * FP, denom)

\* get_signals() reads a window with a large buy, a large sell, a trade of
\* exactly the threshold and a smaller one, and an event outside the window
C29_MixedWindow ==
    \E j \in 1..Len(FlowSignalsRead) :
        LET sg == FlowSignalsRead[j]
            events == trades[sg.coin]
            cutoff == callerPc.op - sg.window
        IN /\ sg.large_buy_count = 2
           /\ sg.large_sell_count = 1
           /\ \E k \in 1..Len(events) :
                  events[k].ts >= cutoff /\ events[k].usd = LARGE_TRADE_THRESHOLD[sg.coin]
           /\ \E k \in 1..Len(events) :
                  events[k].ts >= cutoff /\ events[k].usd < LARGE_TRADE_THRESHOLD[sg.coin]
           /\ \E w \in Range(ORDERFLOW_WINDOWS) :
                  \E k \in 1..Len(events) : events[k].ts < callerPc.op - w

\* C26: for every instrument of a get_signals() result long_pct + short_pct
\* is at most 100, and is 100 exactly when some tracked whale has a nonzero
\* last-known position in it; otherwise both are 0.
C26_SharesAddUp ==
    callerPc.pc = "gs_crit" /\ callerPc.det = "whales" /\ ~WhaleGetSignalsRaises =>
        \A i \in 1..Len(TRACKED_COINS) :
            LET coin == TRACKED_COINS[i]
                pct == WhalePct(coin)
                both == F64Add(pct.long_pct, pct.short_pct)
                held == \E j \in 1..Len(whales) : PositionOf(whales[j], coin) # 0
            IN /\ F64Leq(both, F64FromInt(100))
               /\ both = F64FromInt(100) <=> held
               /\ ~held => pct.long_pct = F64Zero /\ pct.short_pct = F64Zero

\* the latest sample of each instrument with its z-score and its history
Scored ==
    {[x |-> fundLatest[j].v.funding_rate, z |-> fundLatest[j].v.funding_zscore,
      values |-> Values(fundHistory[fundLatest[j].k])] : j \in 1..Len(fundLatest)}
    \cup
    {[x |-> hlpLatest[j].v.hlp_exposure, z |-> hlpLatest[j].v.z_score,
      values |-> Values(hlpHistory[hlpLatest[j].k])] : j \in 1..Len(hlpLatest)}

\* the standard deviation of the values is 0
Flat(values) == \A j \in 1..Len(values) : \A k \in 1..Len(values) : values[j] = values[k]

ChangeFrom(last_oi, coin, oi) ==
    IF coin \in DOMAIN last_oi /\ last_oi[coin] # 0
    THEN Quot((oi - last_oi[coin]) * 100 * FP, last_oi[coin])
    ELSE 0

\* C28: the oi_change_pct of a funding signal is taken from the open interest
\* that the previous cycle reporting the instrument stored, it is 0 when there
\* is none or it is 0, and afterwards the stored value is the oi just reported.
C28_ChangeFromPreviousCycle ==
    [][\A i \in 1..MaxThreads :
          FundingUpdate(i) =>
              LET w == workers["funding"][i]
                  coin == w.names[w.idx]
                  oi == Coerce(w.ctxs[w.idx].oi)
              IN /\ DictGet(fundLatest', coin, None).oi_change_pct
                        = ChangeFrom(w.last_oi, coin, oi)
                 /\ fundLastOi'[coin] = oi]_vars

\* list followed by the addresses of lb that it lacks, in the order of lb, up
\* to 50 addresses
RECURSIVE Merged(_, _)
Merged(list, lb) ==
    IF lb = <<>> THEN list
    ELSE LET new == IF Head(lb) \in Range(list) THEN list ELSE Append(list, Head(lb))
         IN IF Len(new) >= 50 THEN new ELSE Merged(new, Tail(lb))

\* this step is the last one of bootstrap thread j
BootCompletes(j) ==
    /\ j \in 1..Len(boot)
    /\ boot[j].pc \in {"probe", "append"}
    /\ boot'[j].pc = "dead"

\* C30: when a bootstrap thread completes, the whale list is the seed list
\* followed by the leaderboard addresses it lacked, in leaderboard order and up
\* to 50 addresses; it is the seed list when every probe failed or found
\* nothing.
C30_BootstrapResult ==
    [][\A j \in 1..MaxThreads :
          BootCompletes(j) =>
              whales' = IF boot[j].pc = "append" THEN Merged(DEFAULT_WHALES, boot[j].lb)
                        ELSE DEFAULT_WHALES]_vars

\* C31: once a start() that follows a stop() has returned, the stop flag of the
\* object is clear, so that its live worker goes on polling or receiving --
\* under a set flag the worker ends at its next loop head and nothing starts
\* another one.
C31_RestartRuns ==
    (callerPc = Idle /\ lastOp[target] = "start") => ~StopFlagSet(target)

\* where a poll worker is inside a REST request
FetchPcs == {"fetch", "fetch_vault", "fetch_state", "fetch_mids"}

\* worker i of detector d goes from one request of its cycle, or from the
\* update that followed it, into the next request; the first request of a
\* cycle, which follows the check at the loop head, is not one of these
NextRequestStarts(d, i) ==
    /\ i \in 1..Len(workers[d])
    /\ workers[d][i].pc \in FetchPcs \cup {"acquire", "crit"}
    /\ workers'[d][i].pc \in FetchPcs
    /\ workers'[d][i] # workers[d][i]

\* C32: a worker whose stop flag is set starts no further REST request in its
\* cycle: between two fetches it finds the flag set and leaves, so only the
\* request in flight completes.
C32_NoRequestAfterStop ==
    [][\A d \in Pollers : \A i \in 1..MaxThreads :
          stopFlag[d] => ~NextRequestStarts(d, i)]_vars

AllDead(d) == \A i \in 1..Len(workers[d]) : workers[d][i].pc = "dead"

\* C33: after stop() on a poller that is not started again, its worker leaves
\* the loop and terminates in the end; stop() can return from its join at any
\* moment, whether or not the worker has terminated, and does return.
C33_StopTerminates ==
    /\ \A d \in Pollers : (stopFlag[d] /\ workers[d] # <<>>) ~> AllDead(d)
    /\ [](callerPc.pc = "join" => ENABLED PollerJoinReturn(target))
    /\ (callerPc.pc = "join") ~> (callerPc = Idle)

\* stop() has returned and the worker is still inside its cycle
C33_StoppedButAlive ==
    /\ callerPc = Idle
    /\ lastOp[target] = "stop"
    /\ stopFlag[target]
    /\ \E i \in 1..Len(workers[target]) : workers[target][i].pc \in FetchPcs

\* the holder id bootstrap thread j would have in the tracker's lock
BootHolder(j) == CALLER + j

\* C34: the bootstrap thread replaces and extends the whale list, and the
\* poll loop copies it, only while holding the tracker's lock.
C34_WhaleListUnderLock ==
    [][/\ \A j \in 1..MaxThreads :
             (BootReset(j) \/ BootAppend(j)) => lock["whales"] = BootHolder(j)
       /\ \A i \in 1..MaxThreads :
             WhaleBegin(i) => lock["whales"] = i]_vars

\* the all-mids fetch of worker i returns a body: with it both fetches of the
\* cycle have succeeded (a failed one sends the worker to its sleep)
HlpFetchesDone(i) ==
    /\ i \in 1..Len(workers["hlp"])
    /\ workers["hlp"][i].pc = "fetch_mids"
    /\ workers'["hlp"][i].pc \notin {"fetch_mids", "sleep"}

\* hist is what is left of old, followed by the one sample (now, exposure)
OneSampleMore(old, hist, now, exposure) ==
    /\ hist # <<>>
    /\ Last(hist) = Sample(now, exposure)
    /\ \E k \in 0..Len(old) : Front(hist) = Tail_n(old, k)

\* C35: an HLP cycle whose clearinghouse-state and all-mids fetches succeed
\* goes on to its update, and the update appends one (now, exposure) sample to
\* the history of every tracked instrument and replaces its latest signal.
C35_CycleUpdatesAll ==
    [][\A i \in 1..MaxThreads :
          /\ HlpFetchesDone(i) => workers'["hlp"][i].pc = "acquire"
          /\ HlpUpdate(i) =>
                \A c \in CoinSet :
                    LET w == workers["hlp"][i] IN
                    /\ OneSampleMore(hlpHistory[c], hlpHistory'[c], w.now, w.exposures[c])
                    /\ DictGet(hlpLatest', c, None).timestamp = w.now
                    /\ DictGet(hlpLatest', c, None).hlp_exposure = w.exposures[c]]_vars

\* the pcs at which a thread is inside a critical section of a detector lock
PollCritPcs == {"crit"}
WsCritPcs == {"om_crit", "trim_crit"}
WsAcquirePcs == {"om_acquire", "trim_acquire"}
LimCritPcs == {"lim_crit", "lim_sleep", "lim_stamp"}

\* the step with which the holder of a detector lock leaves its critical section
PollerRelease(d, i) ==
    \/ d = "whales" /\ WhaleDiff(i)
    \/ d = "hlp" /\ HlpUpdate(i)
    \/ d = "funding" /\ FundingUpdate(i)

CallerRelease ==
    \/ WhaleGetSignalsReturn
    \/ HlpGetSignalsReturn
    \/ FundingGetSignalsReturn
    \/ OrderFlowGetSignalsReturn

\* the next step of the holder of a rate limiter's lock, or the passing of the
\* time its sleep waits for
LimProceeds(w) == LimCheck(w) \/ LimStamp(w) \/ LimWake(w) \/ RestSleepPasses

\* C36: no thread waits for a lock it holds, a thread that holds a lock is
\* inside that lock's critical section and waits for no other lock, for no
\* request and for no frame, and the step that releases the lock is enabled:
\* no cycle of lock waits forms and every get_signals() call returns.
C36_NoDeadlock ==
    /\ \A d \in Pollers : \A i \in 1..Len(workers[d]) :
          /\ workers[d][i].pc = "acquire" => lock[d] # i
          /\ lock[d] = i => /\ workers[d][i].pc \in PollCritPcs
                            /\ ENABLED PollerRelease(d, i)
    /\ \A i \in 1..Len(wsThreads) :
          /\ wsThreads[i].task \in WsAcquirePcs => lock["orderflow"] # i
          /\ lock["orderflow"] = i => /\ wsThreads[i].task \in WsCritPcs
                                      /\ ENABLED (WsHandlerAppend(i) \/ WsTrim(i))
    /\ \A d \in Targets :
          /\ lock[d] \in {0, CALLER} \cup 1..(IF d = "orderflow" THEN Len(wsThreads)
                                                               ELSE Len(workers[d]))
          /\ lock[d] = CALLER => /\ callerPc.pc = "gs_crit"
                                 /\ callerPc.det = d
                                 /\ ENABLED CallerRelease
    /\ callerPc.pc = "gs_crit" => lock[callerPc.det] = CALLER
    /\ \A w \in RestWorkers :
          /\ rq[w].pc = "lim_acquire" => limLock[ClientOf(w)] # w
          /\ limLock[ClientOf(w)] = w => /\ rq[w].pc \in LimCritPcs
                                         /\ ENABLED LimProceeds(w)
          /\ rq[w].pc \in LimCritPcs => limLock[ClientOf(w)] = w

\* the caller is inside get_signals() while the receive thread waits for the
\* same lock
C36_ReaderHoldsWhileHandlerWaits ==
    /\ callerPc.pc = "gs_crit"
    /\ callerPc.det = "orderflow"
    /\ \E i \in 1..Len(wsThreads) : wsThreads[i].task = "trim_acquire"

\* how often x occurs in the sequence s
Times(s, x) == Cardinality({j \in 1..Len(s) : s[j] = x})

\* C37: on a single connection each recorded subscription is sent at most
\* once: a connection is never sent the subscription of an instrument more
\* often than the subscription list records it.
C37_SentAtMostOnce ==
    \A c \in 1..conns : \A coin \in CoinSet :
        Times(wsSent, <<c, coin>>) <= Times(wsSubs, coin)

\* C38: between the calls of a sequence of start() and stop() calls of the
\* order-flow detector that began with a start(), the subscription list of its
\* WS client holds the trades subscription of each tracked instrument exactly
\* once.
C38_SubscribedOnce ==
    (callerPc = Idle /\ wsThreads # <<>>)
        => \A coin \in CoinSet : Times(wsSubs, coin) = 1

\* the addresses of the leaderboard responses of the life-cycle behaviours
LifeLeaders == UNION {Range(LeaderAddresses(resp.items)) : resp \in LifeLbResponses}

\* the addresses that only add_whale() can have put in the whale list
OnlyAdded == Addresses \ (LifeLeaders \cup Range(DEFAULT_WHALES))

\* C39: an address added with add_whale() stays in the whale list in every
\* later state: no step removes from the list an address that add_whale() put
\* there.
C39_AddedWhaleStays ==
    [][\A addr \in OnlyAdded :
          addr \in Range(whales) => addr \in Range(whales')]_vars

\* the handler raises in this step of thread i: on_message raises before it
\* takes the lock, or inside the loop over the trades
HandlerRaises(i) ==
    \/ WsRecv(i, MsgBadData)
    \/ /\ WsHandlerAppend(i)
       /\ AppendTrades(trades, wsThreads[i].msg, 1, wsThreads[i].now).raised

\* the task of thread i leaves the await it was suspended in
Leaves(i, at) == wsThreads[i].task = at /\ wsThreads'[i].task # at

\* C40: a step in which the handler raises leaves the receive thread running:
\* the connection is abandoned and the task sleeps reconnect_delay; when the
\* sleep is over the task connects again unless stop was signalled, and the
\* new connection is sent every recorded subscription before its first frame
\* is received; only the end of the thread, after a stop(), cancels the task.
C40_HandlerRaiseReconnects ==
    [][\A i \in 1..Len(wsThreads) :
          /\ HandlerRaises(i) =>
                /\ wsThreads'[i].pc = "running"
                /\ wsThreads'[i].task = "backoff"
                /\ wsThreads'[i].conn = 0
                /\ wsSock' = 0
                /\ lock'["orderflow"] = 0
          /\ (Leaves(i, "backoff") /\ ~WsFinally(i)) =>
                /\ WsBackoffOver(i)
                /\ wsThreads'[i].task = IF wsStop THEN "done" ELSE "connecting"
          /\ (Leaves(i, "connecting") /\ ~WsFinally(i)) =>
                /\ wsThreads'[i].conn = conns + 1
                /\ wsSock' = conns + 1
                /\ wsThreads'[i].task = IF wsSubs = <<>> THEN "recv" ELSE "replay"
          /\ (Leaves(i, "replay") /\ ~WsFinally(i)) =>
                /\ wsThreads'[i].task = "recv"
                /\ IsSubseq(wsSubs, CoinsSentOn(wsSent', wsThreads[i].conn))]_vars

\* the handler raised on a frame of the first connection, and the second
\* connection has been sent the subscriptions and delivers a frame
C40_ReconnectedAfterRaise ==
    \E i \in 1..Len(wsThreads) :
        /\ ~wsStop
        /\ wsThreads[i].pc = "running"
        /\ wsThreads[i].conn = 2
        /\ wsThreads[i].task = "om_crit"
        /\ wsSubs = TRACKED_COINS
        /\ IsSubseq(wsSubs, CoinsSentOn(wsSent, 2))

====
